---- MODULE Spec2Model ----
(***************************************************************************)
(* Model of synapse/lib/hiveauth.py: the Auth coordinator, its HiveUser,   *)
(* HiveRole and AuthGate objects, the Hive subtree they persist to and the *)
(* events they publish on the Nexus.                                       *)
(*                                                                         *)
(* An engine is a record ("cell") with the fields of Auth                  *)
(*   usersbyiden, usersbyname, rolesbyiden, rolesbyname, authgates,        *)
(*   allrole, rootuser                                                     *)
(* plus `hive`, the persistent subtree rooted at Auth.node.  Every method  *)
(* of the source is an operator from a cell to a result                    *)
(*   [c |-> cell, exc |-> "ok" or the exception raised, evts |-> events    *)
(*    pushed on the Nexus, valu |-> returned value]                        *)
(* so that the same handlers serve the engine and a follower replaying its *)
(* events.                                                                 *)
(*                                                                         *)
(* Spec     : one engine, built on an empty or a used hive, its callers    *)
(*            and restarts; every operation runs to its end.               *)
(* SpecStep : the same engine, with a mutation taken one step at a time,   *)
(*            from await to await, and queries in between.                 *)
(* SpecRepl : the same engine with a follower replaying its events.        *)
(* SpecEval : the evaluator, one query on each of a family of engines.     *)
(***************************************************************************)
EXTENDS Integers, Sequences, FiniteSets, TLC

VARIABLES
    usersbyiden,    \* Auth.usersbyiden : iden -> HiveUser [name, authgates, permcache]
    usersbyname,    \* Auth.usersbyname : name -> iden of the HiveUser
    rolesbyiden,    \* Auth.rolesbyiden : iden -> HiveRole [name, authgates]
    rolesbyname,    \* Auth.rolesbyname : name -> iden of the HiveRole
    authgates,      \* Auth.authgates   : gate iden -> AuthGate [type, gateusers, gateroles]
    allrole,        \* Auth.allrole     : iden of the role found or made as `all` by __anit__
    rootuser,       \* Auth.rootuser    : iden of the user found or made as `root` by __anit__
    hive,           \* the Hive subtree under Auth.node: [roles, users, authgates]
    nexs,           \* the events the last operation pushed on the Nexus, in order
    ret,            \* what the last operation returned or raised
    nops,           \* number of operations the callers have issued
    guids,          \* number of idens s_common.guid() has handed out
    follower,       \* a second engine (cell) that replays the published events
    task            \* the mutation in progress, suspended at an await, if any

vars == <<usersbyiden, usersbyname, rolesbyiden, rolesbyname, authgates, allrole,
          rootuser, hive, nexs, ret, nops, guids, follower, task>>

----------------------------------------------------------------------------
(* Bounds and input sets *)

\* Number of operations the callers issue in one behaviour.
MaxOps == 2

None == "None"
UserNames == {"root", "bob", "eve"}
RoleNames == {"all", "ops", "dev"}
GateIdens == {"g1"}
GateTypes == {"layer", "view"}
Perms == {<<"a">>, <<"a", "b">>}
Defaults == {None, "False"}
GateArgs == GateIdens \cup {None}
\* rule lists handed to setRules: (allow, path) pairs
RuleLists == { <<>>,
               << <<TRUE, <<"a">>>> >>,
               << <<FALSE, <<"a">>>> >>,
               << <<TRUE, <<"a", "b">>>> >>,
               << <<FALSE, <<"a", "b">>>>, <<TRUE, <<"a">>>> >> }
\* a value that is not a str, and not falsy: the bytes b'secret'
Bytes == "b'secret'"
\* the values that are not instances of str
NonStr == {None, Bytes}
Passwds == {"", "secret"} \cup NonStr
\* the values tryPasswd is called with
Guesses == Passwds \cup {"hunter2"}
PermKeys == Perms \X Defaults \X GateArgs

----------------------------------------------------------------------------
(* Dictionaries *)

EmptyFn == [k \in {} |-> k]
Put(f, k, v) == [y \in DOMAIN f \cup {k} |-> IF y = k THEN v ELSE f[y]]
Del(f, k) == [y \in DOMAIN f \ {k} |-> f[y]]
Range(s) == {s[i] : i \in 1..Len(s)}

RECURSIVE Fold(_, _, _)
\* a loop over a dict whose iterations are independent of their order
Fold(Op(_, _), acc, S) ==
    IF S = {} THEN acc
    ELSE LET y == CHOOSE y \in S : TRUE IN Fold(Op, Op(acc, y), S \ {y})

RECURSIVE FoldAsc(_, _, _)
\* a loop over a dict keyed by idens, in insertion order (idens ascend)
FoldAsc(Op(_, _), acc, S) ==
    IF S = {} THEN acc
    ELSE LET y == CHOOSE y \in S : \A z \in S : y <= z IN FoldAsc(Op, Op(acc, y), S \ {y})

\* the results of a method
Ok(c) == [c |-> c, exc |-> "ok", evts |-> <<>>, valu |-> None]
Raise(c, exc) == [c |-> c, exc |-> exc, evts |-> <<>>, valu |-> None]
\* a Nexus push: the event is published, then its handler runs here
Push(tag, args, r) == [r EXCEPT !.evts = <<[tag |-> tag, args |-> args]>> \o @]
\* b after a, which pushed a.evts
After(a, b) == [b EXCEPT !.evts = a.evts \o @]
\* x = valu; F(x): valu is computed once
Let(valu, F(_)) == CHOOSE y \in {F(x) : x \in {valu}} : TRUE
\* the statements F after the call that gave r, unless it raised
Then(r, F(_)) == Let(r, LAMBDA x : IF x.exc # "ok" THEN x ELSE After(x, F(x.c)))
\* return valu
Return(r, valu) == Let(r, LAMBDA x : IF x.exc # "ok" THEN x ELSE [x EXCEPT !.valu = valu])

----------------------------------------------------------------------------
(* Hive nodes.  A HiveDict is a view of its node: reading user.info reads  *)
(* the hive, and info.set writes it.                                       *)

\* HiveRuler.__anit__ / HiveUser.__anit__: the info a new user node gets by setdefault
UserInfoDefaults ==
    [admin |-> FALSE, rules |-> <<>>, roles |-> <<>>, passwd |-> <<>>,
     locked |-> FALSE, archived |-> FALSE]

\* HiveRuler.__anit__: the info a new role node gets by setdefault
RoleInfoDefaults == [admin |-> FALSE, rules |-> <<>>]

\* the dict of a per-gate node: info.get('admin') is None (falsy), info.get('rules', ()) is ()
GateInfoDefaults == [admin |-> FALSE, rules |-> <<>>]

EmptyHive == [roles |-> EmptyFn, users |-> EmptyFn, authgates |-> EmptyFn]

\* HiveUser object built on a node
HiveUser(node) == [name |-> node.valu, authgates |-> {}, permcache |-> EmptyFn]

\* HiveRole object built on a node
HiveRole(node) == [name |-> node.valu, authgates |-> {}]

UserInfo(c, iden) == c.hive.users[iden].info
RoleInfo(c, iden) == c.hive.roles[iden].info
\* user.authgates[gateiden] / role.authgates[gateiden]: the dict on the gate's node
GateUserInfo(c, gateiden, iden) == c.hive.authgates[gateiden].users[iden]
GateRoleInfo(c, gateiden, iden) == c.hive.authgates[gateiden].roles[iden]

----------------------------------------------------------------------------
(* HiveUser: the evaluator and the decision cache *)

\* perm[:len(path)] == path
IsPrefix(path, perm) ==
    /\ Len(path) <= Len(perm)
    /\ SubSeq(perm, 1, Len(path)) = path

Dec(allow) == IF allow THEN "True" ELSE "False"
NoMatch == "nomatch"

RECURSIVE scanRules(_, _)
\* for allow, path in rules: if perm[:len(path)] == path: return allow
scanRules(rules, perm) ==
    IF rules = <<>> THEN NoMatch
    ELSE IF IsPrefix(Head(rules)[2], perm) THEN Dec(Head(rules)[1])
    ELSE scanRules(Tail(rules), perm)

hasRole(c, iden, roleiden) == roleiden \in Range(UserInfo(c, iden).roles)

\* HiveUser.getRoles: the roles of the list that exist, in list order
getRoles(c, iden) ==
    SelectSeq(UserInfo(c, iden).roles, LAMBDA r : r \in DOMAIN c.rolesbyiden)

RECURSIVE scanGateRolesAnyGate(_, _, _, _)
\* step 3 reading the rules a role has on any gate, not on gateiden alone
scanGateRolesAnyGate(c, roles, gateiden, perm) ==
    IF roles = <<>> THEN NoMatch
    ELSE LET ms == {scanRules(GateRoleInfo(c, g, Head(roles)).rules, perm) :
                        g \in c.rolesbyiden[Head(roles)].authgates} \ {NoMatch}
         IN  IF ms # {} THEN CHOOSE m \in ms : TRUE
             ELSE scanGateRolesAnyGate(c, Tail(roles), gateiden, perm)

RECURSIVE scanGateRoles(_, _, _, _)
\* 3. check authgate role rules
scanGateRoles(c, roles, gateiden, perm) ==
    IF roles = <<>> THEN NoMatch
    ELSE IF gateiden \notin c.rolesbyiden[Head(roles)].authgates
         THEN scanGateRoles(c, Tail(roles), gateiden, perm)
    ELSE LET m == scanRules(GateRoleInfo(c, gateiden, Head(roles)).rules, perm)
         IN  IF m # NoMatch THEN m ELSE scanGateRoles(c, Tail(roles), gateiden, perm)

RECURSIVE scanRoles(_, _, _)
\* 4. check role rules
scanRoles(c, roles, perm) ==
    IF roles = <<>> THEN NoMatch
    ELSE LET m == scanRules(RoleInfo(c, Head(roles)).rules, perm)
         IN  IF m # NoMatch THEN m ELSE scanRoles(c, Tail(roles), perm)

\* 1. check authgate user rules: the user's dict on the gate
scanGateUser(c, iden, gateiden, perm) ==
    IF gateiden = None \/ gateiden \notin c.usersbyiden[iden].authgates THEN NoMatch
    ELSE IF GateUserInfo(c, gateiden, iden).admin THEN "True"
    ELSE scanRules(GateUserInfo(c, gateiden, iden).rules, perm)

\* _allowed with the user's own rules read before its rules on the gate
_allowedGlobalFirst(c, iden, pkey) ==
    LET perm == pkey[1]
        gateiden == pkey[3]
        info == UserInfo(c, iden)
        m1 == scanGateUser(c, iden, gateiden, perm)
        m2 == scanRules(info.rules, perm)
        m3 == IF gateiden = None THEN NoMatch
              ELSE scanGateRoles(c, getRoles(c, iden), gateiden, perm)
        m4 == scanRoles(c, getRoles(c, iden), perm)
    IN  IF info.locked THEN "False"
        ELSE IF info.admin THEN "True"
        ELSE IF m2 # NoMatch THEN m2
        ELSE IF m1 # NoMatch THEN m1
        ELSE IF m3 # NoMatch THEN m3
        ELSE IF m4 # NoMatch THEN m4
        ELSE pkey[2]

\* _allowed with admin read before locked
_allowedAdminFirst(c, iden, pkey) ==
    LET perm == pkey[1]
        gateiden == pkey[3]
        info == UserInfo(c, iden)
        m1 == scanGateUser(c, iden, gateiden, perm)
        m2 == scanRules(info.rules, perm)
        m3 == IF gateiden = None THEN NoMatch
              ELSE scanGateRoles(c, getRoles(c, iden), gateiden, perm)
        m4 == scanRoles(c, getRoles(c, iden), perm)
    IN  IF info.admin THEN "True"
        ELSE IF info.locked THEN "False"
        ELSE IF m1 # NoMatch THEN m1
        ELSE IF m2 # NoMatch THEN m2
        ELSE IF m3 # NoMatch THEN m3
        ELSE IF m4 # NoMatch THEN m4
        ELSE pkey[2]

\* HiveUser._allowed
_allowed(c, iden, pkey) ==
    LET perm == pkey[1]
        default == pkey[2]
        gateiden == pkey[3]
        info == UserInfo(c, iden)
        m1 == scanGateUser(c, iden, gateiden, perm)
        m2 == scanRules(info.rules, perm)
        m3 == IF gateiden = None THEN NoMatch
              ELSE scanGateRoles(c, getRoles(c, iden), gateiden, perm)
        m4 == scanRoles(c, getRoles(c, iden), perm)
    IN  IF info.locked THEN "False"
        ELSE IF info.admin THEN "True"
        ELSE IF m1 # NoMatch THEN m1
        ELSE IF m2 # NoMatch THEN m2
        ELSE IF m3 # NoMatch THEN m3
        ELSE IF m4 # NoMatch THEN m4
        ELSE default

\* allowed with a cache keyed by perm alone
allowedByPerm(c, iden, pkey) ==
    LET cache == c.usersbyiden[iden].permcache
        hits == {k \in DOMAIN cache : k[1] = pkey[1]}
        valu == _allowed(c, iden, pkey)
    IN  IF hits # {}
        THEN [Ok(c) EXCEPT !.valu = cache[CHOOSE k \in hits : TRUE]]
        ELSE [Ok([c EXCEPT !.usersbyiden[iden].permcache = Put(@, pkey, valu)])
                EXCEPT !.valu = valu]

\* HiveUser.allowed: permcache.get((perm, default, gateiden)), which calls
\* _allowed on a miss and keeps what it returned
allowed(c, iden, pkey) ==
    LET cache == c.usersbyiden[iden].permcache
        valu == _allowed(c, iden, pkey)
    IN  IF pkey \in DOMAIN cache
        THEN [Ok(c) EXCEPT !.valu = cache[pkey]]
        ELSE [Ok([c EXCEPT !.usersbyiden[iden].permcache = Put(@, pkey, valu)])
                EXCEPT !.valu = valu]

\* clearAuthCache that leaves the cache as it is
clearAuthCacheKept(c, iden) == c

\* HiveUser.clearAuthCache
clearAuthCache(c, iden) == [c EXCEPT !.usersbyiden[iden].permcache = EmptyFn]

\* HiveRole.clearAuthCache that clears no user
HiveRole_clearAuthCacheNone(c, roleiden) == c

\* HiveRole.clearAuthCache: every user holding the role
HiveRole_clearAuthCache(c, roleiden) ==
    [c EXCEPT !.usersbyiden =
        [u \in DOMAIN @ |-> IF hasRole(c, u, roleiden)
                            THEN [@[u] EXCEPT !.permcache = EmptyFn]
                            ELSE @[u]]]

----------------------------------------------------------------------------
(* AuthGate *)

\* Auth.reqAuthGate
reqAuthGate(c, gateiden) ==
    IF gateiden \in DOMAIN c.authgates THEN Ok(c) ELSE Raise(c, "NoSuchAuthGate")

\* AuthGate.genUserInfo: open the user's node under the gate and link its dict
genUserInfo(c, gateiden, iden) ==
    [c EXCEPT !.hive.authgates[gateiden].users =
                    IF iden \in DOMAIN @ THEN @ ELSE Put(@, iden, GateInfoDefaults),
              !.authgates[gateiden].gateusers = @ \cup {iden},
              !.usersbyiden[iden].authgates = @ \cup {gateiden}]

\* AuthGate.genRoleInfo
genRoleInfo(c, gateiden, iden) ==
    [c EXCEPT !.hive.authgates[gateiden].roles =
                    IF iden \in DOMAIN @ THEN @ ELSE Put(@, iden, GateInfoDefaults),
              !.authgates[gateiden].gateroles = @ \cup {iden},
              !.rolesbyiden[iden].authgates = @ \cup {gateiden}]

\* HiveUser.genGateInfo
HiveUser_genGateInfo(c, iden, gateiden) ==
    IF gateiden \in c.usersbyiden[iden].authgates THEN Ok(c)
    ELSE Then(reqAuthGate(c, gateiden), LAMBDA g : Ok(genUserInfo(g, gateiden, iden)))

\* HiveRole.genGateInfo
HiveRole_genGateInfo(c, iden, gateiden) ==
    IF gateiden \in c.rolesbyiden[iden].authgates THEN Ok(c)
    ELSE Then(reqAuthGate(c, gateiden), LAMBDA g : Ok(genRoleInfo(g, gateiden, iden)))

\* AuthGate._delGateUser
_delGateUser(c, gateiden, iden) ==
    [c EXCEPT !.authgates[gateiden].gateusers = @ \ {iden},
              !.hive.authgates[gateiden].users = Del(@, iden)]

\* AuthGate._delGateRole
_delGateRole(c, gateiden, iden) ==
    [c EXCEPT !.authgates[gateiden].gateroles = @ \ {iden},
              !.hive.authgates[gateiden].roles = Del(@, iden)]

\* AuthGate.delete, one step of its first loop
deleteGateUser(c, gateiden, iden) ==
    clearAuthCache([c EXCEPT !.usersbyiden[iden].authgates = @ \ {gateiden}], iden)

\* the second loop of AuthGate.delete clearing the caches and leaving the
\* handle of the role in place
deleteGateRoleKeepHandle(c, gateiden, iden) == HiveRole_clearAuthCache(c, iden)

\* AuthGate.delete, one step of its second loop
deleteGateRole(c, gateiden, iden) ==
    HiveRole_clearAuthCache([c EXCEPT !.rolesbyiden[iden].authgates = @ \ {gateiden}], iden)

\* AuthGate.delete without its loop over gateroles
AuthGate_deleteUsersOnly(c, gateiden) ==
    [Fold(LAMBDA a, u : deleteGateUser(a, gateiden, u), c, c.authgates[gateiden].gateusers)
        EXCEPT !.hive.authgates = Del(@, gateiden)]

\* AuthGate.delete
AuthGate_delete(c, gateiden) ==
    LET c1 == Fold(LAMBDA a, u : deleteGateUser(a, gateiden, u), c,
                   c.authgates[gateiden].gateusers)
        c2 == Fold(LAMBDA a, r : deleteGateRole(a, gateiden, r), c1,
                   c.authgates[gateiden].gateroles)
    IN  [c2 EXCEPT !.hive.authgates = Del(@, gateiden)]

\* AuthGate.__anit__ without its loop over the users of the node
AuthGate_anitNoUsers(c, gateiden) ==
    LET node == c.hive.authgates[gateiden]
        c0 == [c EXCEPT !.authgates =
                  Put(@, gateiden, [type |-> node.valu, gateusers |-> {}, gateroles |-> {}])]
        addrole(a, r) ==
            IF r \notin DOMAIN a.rolesbyiden THEN a
            ELSE [a EXCEPT !.authgates[gateiden].gateroles = @ \cup {r},
                           !.rolesbyiden[r].authgates = @ \cup {gateiden}]
    IN  Fold(addrole, c0, DOMAIN node.roles)

\* AuthGate.__anit__ on a node of the hive: link the dicts of the known principals
AuthGate_anit(c, gateiden) ==
    LET node == c.hive.authgates[gateiden]
        c0 == [c EXCEPT !.authgates =
                  Put(@, gateiden, [type |-> node.valu, gateusers |-> {}, gateroles |-> {}])]
        adduser(a, u) ==
            IF u \notin DOMAIN a.usersbyiden THEN a
            ELSE clearAuthCache(
                    [a EXCEPT !.authgates[gateiden].gateusers = @ \cup {u},
                              !.usersbyiden[u].authgates = @ \cup {gateiden}], u)
        addrole(a, r) ==
            IF r \notin DOMAIN a.rolesbyiden THEN a
            ELSE [a EXCEPT !.authgates[gateiden].gateroles = @ \cup {r},
                           !.rolesbyiden[r].authgates = @ \cup {gateiden}]
        c1 == Fold(adduser, c0, DOMAIN node.users)
    IN  Fold(addrole, c1, DOMAIN node.roles)

\* HiveUser.raisePermDeny: reqAuthGate for the message, then AuthDeny
raisePermDeny(c, iden, perm, gateiden) ==
    IF gateiden = None THEN Raise(c, "AuthDeny")
    ELSE Then(reqAuthGate(c, gateiden), LAMBDA g : Raise(g, "AuthDeny"))

\* HiveUser.confirm: `not self.allowed(...)` is true of False and of None
confirm(c, iden, pkey) ==
    Let(allowed(c, iden, pkey),
        LAMBDA r : IF r.valu = "True" THEN [r EXCEPT !.valu = None]
                   ELSE raisePermDeny(r.c, iden, pkey[1], pkey[3]))

----------------------------------------------------------------------------
(* Auth: the handlers of the published events *)

\* Auth._addUserNode
_addUserNode(c, iden) ==
    LET user == HiveUser(c.hive.users[iden])
    IN  [c EXCEPT !.usersbyiden = Put(@, iden, user),
                  !.usersbyname = Put(@, user.name, iden)]

\* Auth._addRoleNode
_addRoleNode(c, iden) ==
    LET role == HiveRole(c.hive.roles[iden])
    IN  [c EXCEPT !.rolesbyiden = Put(@, iden, role),
                  !.rolesbyname = Put(@, role.name, iden)]

\* setUserName without the check of usersbyname
hndlsetUserNameUnchecked(c, iden, name) ==
    IF iden \notin DOMAIN c.usersbyiden THEN Raise(c, "NoSuchUser")
    ELSE Ok([c EXCEPT !.usersbyname = Put(Del(@, c.usersbyiden[iden].name), name, iden),
                      !.usersbyiden[iden].name = name,
                      !.hive.users[iden].valu = name])

\* Auth.setUserName, the handler of user:name
hndlsetUserName(c, iden, name) ==
    IF name \in DOMAIN c.usersbyname THEN Raise(c, "DupUserName")
    ELSE IF iden \notin DOMAIN c.usersbyiden THEN Raise(c, "NoSuchUser")
    ELSE Ok([c EXCEPT !.usersbyname = Put(Del(@, c.usersbyiden[iden].name), name, iden),
                      !.usersbyiden[iden].name = name,
                      !.hive.users[iden].valu = name])

\* Auth.setRoleName, the handler of role:name
hndlsetRoleName(c, iden, name) ==
    IF name \in DOMAIN c.rolesbyname THEN Raise(c, "DupRoleName")
    ELSE IF iden \notin DOMAIN c.rolesbyiden THEN Raise(c, "NoSuchRole")
    ELSE Ok([c EXCEPT !.rolesbyname = Put(Del(@, c.rolesbyiden[iden].name), name, iden),
                      !.rolesbyiden[iden].name = name,
                      !.hive.roles[iden].valu = name])

\* setUserInfo that clears the user's cache before it looks for the gate
hndlsetUserInfoClearFirst(c, iden, name, valu, gateiden) ==
    IF iden \notin DOMAIN c.usersbyiden THEN Raise(c, "NoSuchUser")
    ELSE IF gateiden = None
    THEN Ok(clearAuthCache([c EXCEPT !.hive.users[iden].info[name] = valu], iden))
    ELSE Then(HiveUser_genGateInfo(clearAuthCache(c, iden), iden, gateiden),
              LAMBDA g : Ok([g EXCEPT !.hive.authgates[gateiden].users[iden][name] = valu]))

\* Auth.setUserInfo, the handler of user:info
hndlsetUserInfo(c, iden, name, valu, gateiden) ==
    IF iden \notin DOMAIN c.usersbyiden THEN Raise(c, "NoSuchUser")
    ELSE IF gateiden = None
    THEN Ok(clearAuthCache([c EXCEPT !.hive.users[iden].info[name] = valu], iden))
    ELSE Then(HiveUser_genGateInfo(c, iden, gateiden),
              LAMBDA g : Ok(clearAuthCache(
                  [g EXCEPT !.hive.authgates[gateiden].users[iden][name] = valu], iden)))

\* Auth.setRoleInfo, the handler of role:info
hndlsetRoleInfo(c, iden, name, valu, gateiden) ==
    IF iden \notin DOMAIN c.rolesbyiden THEN Raise(c, "NoSuchRole")
    ELSE IF gateiden = None
    THEN Ok(HiveRole_clearAuthCache([c EXCEPT !.hive.roles[iden].info[name] = valu], iden))
    ELSE Then(HiveRole_genGateInfo(c, iden, gateiden),
              LAMBDA g : Ok(HiveRole_clearAuthCache(
                  [g EXCEPT !.hive.authgates[gateiden].roles[iden][name] = valu], iden)))

\* the pushing side of @onPushAuto('user:info')
setUserInfo(c, iden, name, valu, gateiden) ==
    Push("user:info", <<iden, name, valu, gateiden>>,
         hndlsetUserInfo(c, iden, name, valu, gateiden))

\* the pushing side of @onPushAuto('role:info')
setRoleInfo(c, iden, name, valu, gateiden) ==
    Push("role:info", <<iden, name, valu, gateiden>>,
         hndlsetRoleInfo(c, iden, name, valu, gateiden))

\* the pushing side of @onPushAuto('user:name')
setUserName(c, iden, name) ==
    Push("user:name", <<iden, name>>, hndlsetUserName(c, iden, name))

\* the pushing side of @onPushAuto('role:name')
setRoleName(c, iden, name) ==
    Push("role:name", <<iden, name>>, hndlsetRoleName(c, iden, name))

\* list.insert(indx, x)
Insert(s, indx, x) ==
    LET i == IF indx > Len(s) THEN Len(s) ELSE indx
    IN  SubSeq(s, 1, i) \o <<x>> \o SubSeq(s, i + 1, Len(s))

RECURSIVE Remove(_, _)
\* list.remove(x): the first occurrence
Remove(s, x) ==
    IF s = <<>> THEN s
    ELSE IF Head(s) = x THEN Tail(s)
    ELSE <<Head(s)>> \o Remove(Tail(s), x)

\* grant without the test for a role the user holds
grantAgain(c, iden, name, indx) ==
    IF name \notin DOMAIN c.rolesbyname THEN Raise(c, "NoSuchRole")
    ELSE setUserInfo(c, iden, "roles",
                     IF indx = <<>> THEN Append(UserInfo(c, iden).roles, c.rolesbyname[name])
                     ELSE Insert(UserInfo(c, iden).roles, indx[1], c.rolesbyname[name]),
                     None)

\* HiveUser.grant; indx is <<>> for None or <<i>>
grant(c, iden, name, indx) ==
    IF name \notin DOMAIN c.rolesbyname THEN Raise(c, "NoSuchRole")
    ELSE LET role == c.rolesbyname[name]
             roles == UserInfo(c, iden).roles
         IN  IF role \in Range(roles) THEN Ok(c)
             ELSE setUserInfo(c, iden, "roles",
                              IF indx = <<>> THEN Append(roles, role)
                              ELSE Insert(roles, indx[1], role),
                              None)

\* HiveUser.revoke
revoke(c, iden, name) ==
    IF name \notin DOMAIN c.rolesbyname THEN Raise(c, "NoSuchRole")
    ELSE LET role == c.rolesbyname[name]
             roles == UserInfo(c, iden).roles
         IN  IF c.rolesbyiden[role].name = "all" THEN Raise(c, "CantRevokeAllRole")
             ELSE IF role \notin Range(roles) THEN Ok(c)
             ELSE setUserInfo(c, iden, "roles", Remove(roles, role), None)

\* Auth._addUser, the handler of user:add
_addUser(c, iden, name) ==
    IF name \in DOMAIN c.usersbyname THEN Raise(c, "DupUserName")
    ELSE [Ok(_addUserNode(
              [c EXCEPT !.hive.users =
                  Put(@, iden, [valu |-> name, info |-> UserInfoDefaults])], iden))
            EXCEPT !.valu = iden]

\* addUser granting `all` by the handler alone, as setAdmin(logged=False) does
addUserUnlogged(c, iden, name) ==
    Return(Then(Push("user:add", <<iden, name>>, _addUser(c, iden, name)),
                LAMBDA user :
                    IF "all" \notin DOMAIN user.rolesbyname THEN Raise(user, "NoSuchRole")
                    ELSE hndlsetUserInfo(user, iden, "roles",
                                         <<user.rolesbyname["all"]>>, None)),
           iden)

\* Auth.addUser, with the iden s_common.guid() gave
addUser(c, iden, name) ==
    Return(Then(Push("user:add", <<iden, name>>, _addUser(c, iden, name)),
                LAMBDA user : grant(user, iden, "all", <<>>)),
           iden)

\* _addRole that makes the node before it looks the name up
_addRoleWriteFirst(c, iden, name) ==
    IF name \in DOMAIN c.rolesbyname
    THEN Raise([c EXCEPT !.hive.roles =
                    Put(@, iden, [valu |-> name, info |-> RoleInfoDefaults])],
               "DupRoleName")
    ELSE [Ok(_addRoleNode(
              [c EXCEPT !.hive.roles =
                  Put(@, iden, [valu |-> name, info |-> RoleInfoDefaults])], iden))
            EXCEPT !.valu = iden]

\* Auth._addRole, the handler of role:add
_addRole(c, iden, name) ==
    IF name \in DOMAIN c.rolesbyname THEN Raise(c, "DupRoleName")
    ELSE [Ok(_addRoleNode(
              [c EXCEPT !.hive.roles =
                  Put(@, iden, [valu |-> name, info |-> RoleInfoDefaults])], iden))
            EXCEPT !.valu = iden]

\* Auth.addRole, with the iden s_common.guid() gave
addRole(c, iden, name) == Push("role:add", <<iden, name>>, _addRole(c, iden, name))

\* delUser without its loop over the gates
hndldelUserNoGates(c, name) ==
    IF name = "root" THEN Raise(c, "CantDelRootUser")
    ELSE IF name \notin DOMAIN c.usersbyname THEN Raise(c, "NoSuchUser")
    ELSE Ok([c EXCEPT !.usersbyiden = Del(@, c.usersbyname[name]),
                      !.usersbyname = Del(@, name),
                      !.hive.users = Del(@, c.usersbyname[name])])

\* Auth.delUser, the handler of user:del
hndldelUser(c, name) ==
    IF name = "root" THEN Raise(c, "CantDelRootUser")
    ELSE IF name \notin DOMAIN c.usersbyname THEN Raise(c, "NoSuchUser")
    ELSE LET iden == c.usersbyname[name]
             c1 == [c EXCEPT !.usersbyiden = Del(@, iden),
                             !.usersbyname = Del(@, c.usersbyiden[iden].name)]
             c2 == Fold(LAMBDA a, g : _delGateUser(a, g, iden), c1, DOMAIN c1.authgates)
         IN  Ok([c2 EXCEPT !.hive.users = Del(@, iden)])

\* Auth._getUsersInRole
_getUsersInRole(c, roleiden) == {u \in DOMAIN c.usersbyiden : hasRole(c, u, roleiden)}

\* delRole without its loop over the gates
hndldelRoleNoGates(c, name) ==
    IF name = "all" THEN Raise(c, "CantDelAllRole")
    ELSE IF name \notin DOMAIN c.rolesbyname THEN Raise(c, "NoSuchRole")
    ELSE LET iden == c.rolesbyname[name]
             rname == c.rolesbyiden[iden].name
             step(r, u) == Then(r, LAMBDA a : revoke(a, u, rname))
         IN  Then(FoldAsc(step, Ok(c), _getUsersInRole(c, iden)),
                  LAMBDA c1 : Ok([c1 EXCEPT !.rolesbyiden = Del(@, iden),
                                            !.rolesbyname = Del(@, rname),
                                            !.hive.roles = Del(@, iden)]))

\* delRole without its loop over the users in the role
hndldelRoleNoRevoke(c, name) ==
    IF name = "all" THEN Raise(c, "CantDelAllRole")
    ELSE IF name \notin DOMAIN c.rolesbyname THEN Raise(c, "NoSuchRole")
    ELSE LET iden == c.rolesbyname[name]
             gates == Fold(LAMBDA a, g : _delGateRole(a, g, iden), c, DOMAIN c.authgates)
         IN  Ok([gates EXCEPT !.rolesbyiden = Del(@, iden),
                              !.rolesbyname = Del(@, c.rolesbyiden[iden].name),
                              !.hive.roles = Del(@, iden)])

\* Auth.delRole, the handler of role:del
hndldelRole(c, name) ==
    IF name = "all" THEN Raise(c, "CantDelAllRole")
    ELSE IF name \notin DOMAIN c.rolesbyname THEN Raise(c, "NoSuchRole")
    ELSE LET iden == c.rolesbyname[name]
             rname == c.rolesbyiden[iden].name
             step(r, u) == Then(r, LAMBDA a : revoke(a, u, rname))
             gates(c1) == Fold(LAMBDA a, g : _delGateRole(a, g, iden), c1, DOMAIN c1.authgates)
         IN  Then(FoldAsc(step, Ok(c), _getUsersInRole(c, iden)),
                  LAMBDA c1 : Ok([gates(c1) EXCEPT !.rolesbyiden = Del(@, iden),
                                                   !.rolesbyname = Del(@, rname),
                                                   !.hive.roles = Del(@, iden)]))

\* delUser that runs its handler and pushes nothing
delUserUnpushed(c, name) == hndldelUser(c, name)

\* the pushing side of @onPushAuto('user:del')
delUser(c, name) == Push("user:del", <<name>>, hndldelUser(c, name))

\* the pushing side of @onPushAuto('role:del')
delRole(c, name) == Push("role:del", <<name>>, hndldelRole(c, name))

\* addAuthGate that gives a gate it holds the type it is called with
addAuthGateRetype(c, iden, authgatetype) ==
    IF iden \in DOMAIN c.authgates
    THEN Ok([c EXCEPT !.authgates[iden].type = authgatetype,
                      !.hive.authgates[iden].valu = authgatetype])
    ELSE LET node == IF iden \in DOMAIN c.hive.authgates THEN c.hive.authgates[iden]
                     ELSE [valu |-> None, users |-> EmptyFn, roles |-> EmptyFn]
         IN  Ok(AuthGate_anit(
                 [c EXCEPT !.hive.authgates = Put(@, iden, [node EXCEPT !.valu = authgatetype])],
                 iden))

\* Auth.addAuthGate
addAuthGate(c, iden, authgatetype) ==
    IF iden \in DOMAIN c.authgates
    THEN IF c.authgates[iden].type # authgatetype THEN Raise(c, "InconsistentStorage")
         ELSE Ok(c)
    ELSE LET node == IF iden \in DOMAIN c.hive.authgates THEN c.hive.authgates[iden]
                     ELSE [valu |-> None, users |-> EmptyFn, roles |-> EmptyFn]
         IN  Ok(AuthGate_anit(
                 [c EXCEPT !.hive.authgates = Put(@, iden, [node EXCEPT !.valu = authgatetype])],
                 iden))

\* Auth.delAuthGate
delAuthGate(c, iden) ==
    IF iden \notin DOMAIN c.authgates THEN Raise(c, "NoSuchAuthGate")
    ELSE Ok([AuthGate_delete(c, iden) EXCEPT !.authgates = Del(@, iden)])

----------------------------------------------------------------------------
(* HiveUser: flags and password *)

\* HiveUser.setAdmin(admin, gateiden, logged=True)
setAdmin(c, iden, admin, gateiden) == setUserInfo(c, iden, "admin", admin, gateiden)

\* HiveUser.setLocked(locked, logged=True)
setLocked(c, iden, locked) == setUserInfo(c, iden, "locked", locked, None)

\* setArchived that writes archived and leaves locked as it is
setArchivedOnly(c, iden, archived) == setUserInfo(c, iden, "archived", archived, None)

\* setArchived that unlocks the user it unarchives
setArchivedUnlocks(c, iden, archived) ==
    Then(setUserInfo(c, iden, "archived", archived, None),
         LAMBDA c1 : setUserInfo(c1, iden, "locked", archived, None))

\* HiveUser.setArchived
setArchived(c, iden, archived) ==
    Then(setUserInfo(c, iden, "archived", archived, None),
         LAMBDA c1 : IF archived THEN setLocked(c1, iden, TRUE) ELSE Ok(c1))

\* s_common.guid((salt, passwd)): a hash, taken to be injective
guid(salt, passwd) == <<"guid", salt, passwd>>

\* HiveUser.setPasswd, with the salt s_common.guid() gave: writes user.info directly
setPasswd(c, iden, passwd, salt) ==
    IF passwd \in {"", None} \/ passwd \in NonStr THEN Raise(c, "BadArg")
    ELSE Ok([c EXCEPT !.hive.users[iden].info.passwd = <<salt, guid(salt, passwd)>>])

\* tryPasswd that does not read locked
tryPasswdLocked(c, iden, passwd) ==
    LET info == UserInfo(c, iden)
    IN  /\ passwd # None
        /\ info.passwd # <<>>
        /\ guid(info.passwd[1], passwd) = info.passwd[2]

\* HiveUser.tryPasswd
tryPasswd(c, iden, passwd) ==
    LET info == UserInfo(c, iden)
    IN  /\ ~info.locked
        /\ passwd # None
        /\ info.passwd # <<>>
        /\ guid(info.passwd[1], passwd) = info.passwd[2]

----------------------------------------------------------------------------
(* Auth.__anit__ *)

\* Auth.__anit__, the empty maps; allrole and rootuser are not set yet (0)
EmptyCell(node) ==
    [usersbyiden |-> EmptyFn, usersbyname |-> EmptyFn, rolesbyiden |-> EmptyFn,
     rolesbyname |-> EmptyFn, authgates |-> EmptyFn, allrole |-> 0,
     rootuser |-> 0, hive |-> node]

\* Auth.__anit__, the three loops over the children of roles, users, authgates
anitLoad(node) ==
    Fold(AuthGate_anit,
         FoldAsc(_addUserNode,
                 FoldAsc(_addRoleNode, EmptyCell(node), DOMAIN node.roles),
                 DOMAIN node.users),
         DOMAIN node.authgates)

\* self.allrole: found by name, or added; n idens were handed out
anitAllRole(c, n) ==
    Let(IF "all" \in DOMAIN c.rolesbyname THEN [Ok(c) EXCEPT !.valu = n]
        ELSE [addRole(c, n + 1, "all") EXCEPT !.valu = n + 1],
        LAMBDA r : [r EXCEPT !.c.allrole = r.c.rolesbyname["all"]])

\* self.rootuser: found by name, or added
anitRootUser(r) ==
    Let(IF "root" \in DOMAIN r.c.usersbyname THEN r
        ELSE [After(r, addUser(r.c, r.valu + 1, "root")) EXCEPT !.valu = r.valu + 1],
        LAMBDA x : [x EXCEPT !.c.rootuser = x.c.usersbyname["root"]])

\* Auth.__anit__ that sets admin on root and leaves locked as it is
anitRootFlagsAdminOnly(c) == hndlsetUserInfo(c, c.rootuser, "admin", TRUE, None).c

\* setAdmin(True, logged=False); setLocked(False, logged=False): the handler, unpushed
anitRootFlags(c) ==
    Let(hndlsetUserInfo(c, c.rootuser, "admin", TRUE, None).c,
        LAMBDA c1 : hndlsetUserInfo(c1, c1.rootuser, "locked", FALSE, None).c)

\* Auth.__anit__ on the hive subtree `node`, after `n` idens were handed out;
\* valu is the number handed out when it returns
Auth_anit(node, n) ==
    Let(anitRootUser(Let(anitLoad(node), LAMBDA c : anitAllRole(c, n))),
        LAMBDA r : [r EXCEPT !.c = anitRootFlags(r.c)])

----------------------------------------------------------------------------
(* A follower: the handler each published tag is bound to *)

Handle(c, ev) ==
    LET a == ev.args
    IN  CASE ev.tag = "user:add"  -> _addUser(c, a[1], a[2])
          [] ev.tag = "user:del"  -> hndldelUser(c, a[1])
          [] ev.tag = "user:name" -> hndlsetUserName(c, a[1], a[2])
          [] ev.tag = "user:info" -> hndlsetUserInfo(c, a[1], a[2], a[3], a[4])
          [] ev.tag = "role:add"  -> _addRole(c, a[1], a[2])
          [] ev.tag = "role:del"  -> hndldelRole(c, a[1])
          [] ev.tag = "role:name" -> hndlsetRoleName(c, a[1], a[2])
          [] ev.tag = "role:info" -> hndlsetRoleInfo(c, a[1], a[2], a[3], a[4])

RECURSIVE Replay(_, _)
\* the cell of a follower after it applied the events, in publication order
Replay(c, evts) ==
    IF evts = <<>> THEN c ELSE Replay(Handle(c, Head(evts)).c, Tail(evts))

----------------------------------------------------------------------------
(* The engine and its callers *)

Self ==
    [usersbyiden |-> usersbyiden, usersbyname |-> usersbyname,
     rolesbyiden |-> rolesbyiden, rolesbyname |-> rolesbyname,
     authgates |-> authgates, allrole |-> allrole, rootuser |-> rootuser,
     hive |-> hive]

\* idens the callers pass to Auth: those of the engine and one that was
\* never handed out
UserIdens == DOMAIN usersbyiden \cup {guids + 1}
RoleIdens == DOMAIN rolesbyiden \cup {guids + 1}

\* (name, valu) pairs the callers pass to setUserInfo through setAdmin,
\* setLocked and setRules; roles are written by grant and revoke, archived
\* by setArchived
UserInfoArgs ==
    {<<"admin", TRUE>>, <<"admin", FALSE>>, <<"locked", TRUE>>, <<"locked", FALSE>>}
        \cup {<<"rules", rules>> : rules \in RuleLists}
GateInfoNames == {"admin", "rules"}

\* no mutation is in progress
Idle == [op |-> "idle"]

\* the engine takes the state of result r
Took(op, args, r) ==
    \E x \in {r} :
        /\ usersbyiden' = x.c.usersbyiden
        /\ usersbyname' = x.c.usersbyname
        /\ rolesbyiden' = x.c.rolesbyiden
        /\ rolesbyname' = x.c.rolesbyname
        /\ authgates' = x.c.authgates
        /\ allrole' = x.c.allrole
        /\ rootuser' = x.c.rootuser
        /\ hive' = x.c.hive
        /\ nexs' = x.evts
        /\ ret' = [op |-> op, args |-> args, exc |-> x.exc, valu |-> x.valu]
        /\ nops' = nops + 1
        /\ UNCHANGED task

\* an operation whose mutations are published: a follower that is switched
\* on applies the events r published
Done(op, args, r) ==
    /\ Took(op, args, r)
    /\ follower' = IF follower.on THEN [follower EXCEPT !.c = Replay(@, nexs')]
                   ELSE follower

\* an operation that publishes nothing: a follower takes the cell fc when
\* its callers repeat the gate calls on it
DoneLocal(op, args, r, fc) ==
    /\ Took(op, args, r)
    /\ follower' = IF follower.on /\ follower.gates THEN [follower EXCEPT !.c = fc]
                   ELSE follower

AddUser(name) ==
    /\ nops < MaxOps
    /\ guids' = guids + 1
    /\ Done("addUser", <<name>>, addUser(Self, guids + 1, name))

DelUser(name) ==
    /\ nops < MaxOps
    /\ UNCHANGED guids
    /\ Done("delUser", <<name>>, delUser(Self, name))

AddRole(name) ==
    /\ nops < MaxOps
    /\ guids' = guids + 1
    /\ Done("addRole", <<name>>, addRole(Self, guids + 1, name))

DelRole(name) ==
    /\ nops < MaxOps
    /\ UNCHANGED guids
    /\ Done("delRole", <<name>>, delRole(Self, name))

SetUserName(iden, name) ==
    /\ nops < MaxOps
    /\ UNCHANGED guids
    /\ Done("setUserName", <<iden, name>>, setUserName(Self, iden, name))

SetRoleName(iden, name) ==
    /\ nops < MaxOps
    /\ UNCHANGED guids
    /\ Done("setRoleName", <<iden, name>>, setRoleName(Self, iden, name))

SetUserInfo(iden, name, valu, gateiden) ==
    /\ nops < MaxOps
    /\ gateiden # None => name \in GateInfoNames
    /\ UNCHANGED guids
    /\ Done("setUserInfo", <<iden, name, valu, gateiden>>,
            setUserInfo(Self, iden, name, valu, gateiden))

SetRoleInfo(iden, rules, gateiden) ==
    /\ nops < MaxOps
    /\ UNCHANGED guids
    /\ Done("setRoleInfo", <<iden, "rules", rules, gateiden>>,
            setRoleInfo(Self, iden, "rules", rules, gateiden))

Grant(iden, name, indx) ==
    /\ nops < MaxOps
    /\ UNCHANGED guids
    /\ Done("grant", <<iden, name, indx>>, grant(Self, iden, name, indx))

Revoke(iden, name) ==
    /\ nops < MaxOps
    /\ UNCHANGED guids
    /\ Done("revoke", <<iden, name>>, revoke(Self, iden, name))

SetArchived(iden, archived) ==
    /\ nops < MaxOps
    /\ UNCHANGED guids
    /\ Done("setArchived", <<iden, archived>>, setArchived(Self, iden, archived))

SetPasswd(iden, passwd) ==
    /\ nops < MaxOps
    /\ guids' = guids + 1
    /\ DoneLocal("setPasswd", <<iden, passwd>>, setPasswd(Self, iden, passwd, guids + 1),
                 follower.c)

AddAuthGate(iden, authgatetype) ==
    /\ nops < MaxOps
    /\ UNCHANGED guids
    /\ DoneLocal("addAuthGate", <<iden, authgatetype>>, addAuthGate(Self, iden, authgatetype),
                 addAuthGate(follower.c, iden, authgatetype).c)

DelAuthGate(iden) ==
    /\ nops < MaxOps
    /\ UNCHANGED guids
    /\ DoneLocal("delAuthGate", <<iden>>, delAuthGate(Self, iden),
                 delAuthGate(follower.c, iden).c)

\* args[3] tells whether the cache held the key
Allowed(iden, pkey) ==
    /\ nops < MaxOps
    /\ UNCHANGED guids
    /\ DoneLocal("allowed", <<iden, pkey, pkey \in DOMAIN usersbyiden[iden].permcache>>,
                 allowed(Self, iden, pkey), follower.c)

Confirm(iden, pkey) ==
    /\ nops < MaxOps
    /\ UNCHANGED guids
    /\ DoneLocal("confirm", <<iden, pkey>>, confirm(Self, iden, pkey), follower.c)

\* the process stops and Auth is built again on the hive
Restart ==
    /\ nops < MaxOps
    /\ Done("anit", <<>>, Auth_anit(hive, guids))
    /\ guids' = ret'.valu

----------------------------------------------------------------------------
(* Initial states: Auth built on a hive *)

\* the hive of an engine that has been used: role ops denies a; user bob
\* holds all and ops; on gate g1 bob is allowed a.b and ops is allowed a
UsedHive ==
    [roles |-> (1 :> [valu |-> "all", info |-> RoleInfoDefaults]) @@
               (3 :> [valu |-> "ops",
                      info |-> [admin |-> FALSE, rules |-> << <<FALSE, <<"a">>>> >>]]),
     users |-> (2 :> [valu |-> "root",
                      info |-> [UserInfoDefaults EXCEPT !.admin = TRUE, !.roles = <<1>>]]) @@
               (4 :> [valu |-> "bob",
                      info |-> [UserInfoDefaults EXCEPT !.roles = <<1, 3>>]]),
     authgates |-> ("g1" :> [valu |-> "layer",
                             users |-> (4 :> [admin |-> FALSE,
                                              rules |-> << <<TRUE, <<"a", "b">>>> >>]),
                             roles |-> (3 :> [admin |-> FALSE,
                                              rules |-> << <<TRUE, <<"a">>>> >>])])]

\* the operations that leave UsedHive behind, on the engine c built on an
\* empty hive
UsedCell(c) ==
    LET c1 == addRole(c, 3, "ops").c
        c2 == setRoleInfo(c1, 3, "rules", << <<FALSE, <<"a">>>> >>, None).c
        c3 == addUser(c2, 4, "bob").c
        c4 == grant(c3, 4, "ops", <<>>).c
        c5 == addAuthGate(c4, "g1", "layer").c
        c6 == setUserInfo(c5, 4, "rules", << <<TRUE, <<"a", "b">>>> >>, "g1").c
    IN  setRoleInfo(c6, 3, "rules", << <<TRUE, <<"a">>>> >>, "g1").c

\* the hives Auth is built on first, each with the number of idens handed out
Hives == {<<EmptyHive, 0>>, <<UsedHive, 4>>}

\* Auth built on `node` when the callers have issued `ops` operations; a
\* follower f that is switched on is built on the hive the engine has then
InitOn(node, n, f, ops) ==
    \E r \in {Auth_anit(node, n)} :
        /\ usersbyiden = r.c.usersbyiden
        /\ usersbyname = r.c.usersbyname
        /\ rolesbyiden = r.c.rolesbyiden
        /\ rolesbyname = r.c.rolesbyname
        /\ authgates = r.c.authgates
        /\ allrole = r.c.allrole
        /\ rootuser = r.c.rootuser
        /\ hive = r.c.hive
        /\ nexs = r.evts
        /\ ret = [op |-> "anit", args |-> <<>>, exc |-> r.exc, valu |-> r.valu]
        /\ nops = ops
        /\ guids = r.valu
        /\ task = Idle
        /\ follower = IF f.on THEN [f EXCEPT !.c = Auth_anit(r.c.hive, r.valu).c] ELSE f

NoFollower == [on |-> FALSE, gates |-> FALSE, c |-> EmptyCell(EmptyHive)]

Init == \E h \in Hives : InitOn(h[1], h[2], NoFollower, 0)

\* the operations the callers issue on a running engine
Ops ==
    \/ \E name \in UserNames : AddUser(name)
    \/ \E name \in UserNames : DelUser(name)
    \/ \E name \in RoleNames : AddRole(name)
    \/ \E name \in RoleNames : DelRole(name)
    \/ \E iden \in UserIdens, name \in UserNames : SetUserName(iden, name)
    \/ \E iden \in RoleIdens, name \in RoleNames : SetRoleName(iden, name)
    \/ \E iden \in UserIdens, a \in UserInfoArgs, gateiden \in GateArgs :
            SetUserInfo(iden, a[1], a[2], gateiden)
    \/ \E iden \in RoleIdens, rules \in RuleLists, gateiden \in GateArgs :
            SetRoleInfo(iden, rules, gateiden)
    \/ \E iden \in DOMAIN usersbyiden, name \in RoleNames, indx \in {<<>>, <<0>>} :
            Grant(iden, name, indx)
    \/ \E iden \in DOMAIN usersbyiden, name \in RoleNames : Revoke(iden, name)
    \/ \E iden \in DOMAIN usersbyiden, archived \in BOOLEAN : SetArchived(iden, archived)
    \/ \E iden \in DOMAIN usersbyiden, passwd \in Passwds : SetPasswd(iden, passwd)
    \/ \E iden \in GateIdens, authgatetype \in GateTypes : AddAuthGate(iden, authgatetype)
    \/ \E iden \in GateIdens : DelAuthGate(iden)
    \/ \E iden \in DOMAIN usersbyiden, pkey \in PermKeys : Allowed(iden, pkey)
    \/ \E iden \in DOMAIN usersbyiden, pkey \in PermKeys : Confirm(iden, pkey)

Next == Ops \/ Restart

Spec == Init /\ [][Next]_vars

----------------------------------------------------------------------------
(* A leader and a follower: the follower is built on the hive the leader   *)
(* starts from and replays what the leader publishes; its callers repeat   *)
(* the gate calls on it (gates) or do not.  No engine is rebuilt.          *)

InitRepl ==
    \E h \in Hives, gates \in BOOLEAN :
        InitOn(h[1], h[2], [on |-> TRUE, gates |-> gates, c |-> EmptyCell(EmptyHive)], 0)

SpecRepl == InitRepl /\ [][Ops]_vars

----------------------------------------------------------------------------
(* The evaluator on its own: Auth built on each hive of a family, then one *)
(* allowed() query.  User bob (4) and roles all (1), ops (3) vary; every   *)
(* hive of the family is one that setRules, setAdmin, setLocked and grant  *)
(* leave behind.                                                           *)

Opt(S) == {<<>>} \cup {<<x>> : x \in S}
Child(iden, o) == IF o = <<>> THEN EmptyFn ELSE (iden :> o[1])
Rule(allow, path) == <<allow, path>>

EvalHives ==
    { [roles |-> (1 :> [valu |-> "all", info |-> [admin |-> FALSE, rules |-> allrules]]) @@
                 (3 :> [valu |-> "ops", info |-> [admin |-> FALSE, rules |-> opsrules]]),
       users |-> (2 :> [valu |-> "root",
                        info |-> [UserInfoDefaults EXCEPT !.admin = TRUE, !.roles = <<1>>]]) @@
                 (4 :> [valu |-> "bob",
                        info |-> [UserInfoDefaults EXCEPT !.roles = roles, !.rules = rules,
                                                          !.admin = flags[1],
                                                          !.locked = flags[2]]]),
       authgates |-> ("g1" :> [valu |-> "layer",
                               users |-> Child(4, bobgate),
                               roles |-> Child(1, allgate) @@ Child(3, opsgate)])] :
        flags \in BOOLEAN \X BOOLEAN,
        roles \in {<<1>>, <<1, 3>>, <<3, 1>>},
        rules \in {<<>>, <<Rule(TRUE, <<"a", "b">>)>>, <<Rule(FALSE, <<"a">>)>>},
        bobgate \in Opt([admin : BOOLEAN,
                         rules : {<<>>, <<Rule(FALSE, <<"a", "b">>)>>}]),
        opsgate \in Opt([admin : {FALSE},
                         rules : {<<Rule(TRUE, <<"a">>)>>,
                                  <<Rule(FALSE, <<"a", "b">>), Rule(TRUE, <<"a">>)>>}]),
        allgate \in Opt([admin : {FALSE}, rules : {<<Rule(FALSE, <<"a">>)>>}]),
        opsrules \in {<<>>, <<Rule(FALSE, <<"a">>)>>},
        allrules \in {<<>>, <<Rule(TRUE, <<"a">>)>>} }

InitEval == \E h \in EvalHives : InitOn(h, 4, NoFollower, MaxOps - 1)

NextEval == \E iden \in DOMAIN usersbyiden, pkey \in PermKeys : Allowed(iden, pkey)

SpecEval == InitEval /\ [][NextEval]_vars

----------------------------------------------------------------------------
(* The evaluator on an engine with two gates: user bob and role ops have,  *)
(* or have not, an overlay on each.                                        *)

OtherGate == "g2"

\* the keys the callers query an engine with two gates with
GateKeys == Perms \X Defaults \X (GateArgs \cup {OtherGate})

\* the dicts a user can have on a gate
UserOverlays ==
    { [admin |-> FALSE, rules |-> <<Rule(TRUE, <<"a">>)>>],
      [admin |-> FALSE, rules |-> <<Rule(FALSE, <<"a">>)>>],
      [admin |-> TRUE, rules |-> <<>>] }

\* the dicts a role can have on a gate
RoleOverlays ==
    { [admin |-> FALSE, rules |-> <<Rule(TRUE, <<"a">>)>>],
      [admin |-> FALSE, rules |-> <<Rule(FALSE, <<"a", "b">>)>>] }

GateHives ==
    { [roles |-> (1 :> [valu |-> "all", info |-> RoleInfoDefaults]) @@
                 (3 :> [valu |-> "ops", info |-> RoleInfoDefaults]),
       users |-> (2 :> [valu |-> "root",
                        info |-> [UserInfoDefaults EXCEPT !.admin = TRUE, !.roles = <<1>>]]) @@
                 (4 :> [valu |-> "bob",
                        info |-> [UserInfoDefaults EXCEPT !.roles = <<1, 3>>,
                                                          !.rules = rules]]),
       authgates |-> ("g1" :> [valu |-> "layer",
                               users |-> Child(4, bob1), roles |-> Child(3, ops1)]) @@
                     (OtherGate :> [valu |-> "view",
                                    users |-> Child(4, bob2), roles |-> Child(3, ops2)])] :
        rules \in {<<>>, <<Rule(FALSE, <<"a", "b">>)>>},
        bob1 \in Opt(UserOverlays), bob2 \in Opt(UserOverlays),
        ops1 \in Opt(RoleOverlays), ops2 \in Opt(RoleOverlays) }

InitGates == \E h \in GateHives : InitOn(h, 4, NoFollower, MaxOps - 1)

NextGates == \E iden \in DOMAIN usersbyiden, pkey \in GateKeys : Allowed(iden, pkey)

SpecGates == InitGates /\ [][NextGates]_vars

\* the same engine, queried MaxOps times
InitKeys == \E h \in GateHives : InitOn(h, 4, NoFollower, 0)

SpecKeys == InitKeys /\ [][NextGates]_vars

----------------------------------------------------------------------------
(* A mutation taken step by step.  The coroutine of a mutation runs        *)
(* without interruption up to a call on the store (node.set, info.set,     *)
(* node.pop, hive.set, hive.pop, the node.open that makes a node); the     *)
(* call is awaited, so the coroutine may be suspended before the call has  *)
(* taken effect and again before the statement after it runs.  Both are    *)
(* states here: the statements between two store calls are one step, and   *)
(* a store call taking effect is one step.  pc names the next step.        *)

\* a mutation that was called; iden is the principal it works on, todo the
\* rest of the dict a loop runs over, info the pending arguments of
\* setUserInfo or setRoleInfo, next the step after their last, evts what
\* it has published, from the cell the mutation was called on
Entered(op, args, iden, c) ==
    [op |-> op, args |-> args, pc |-> "start", exc |-> "ok", valu |-> None,
     iden |-> iden, todo |-> {}, gate |-> None, info |-> <<>>, next |-> "done",
     evts |-> <<>>, from |-> c]

\* the mutation goes on to step pc; nothing was published
Go(c, t, pc) == [c |-> c, t |-> [t EXCEPT !.pc = pc], evts |-> <<>>]

\* the mutation returns, or raises exc
End(c, t, exc) == Go(c, [t EXCEPT !.exc = exc], "done")

\* a Nexus push: the event is published, then its handler runs up to x
Published(tag, args, x) == [x EXCEPT !.evts = <<[tag |-> tag, args |-> args]>> \o @]

\* Auth.setUserInfo up to its first store call, called with a
\* (iden, name, valu, gateiden): reqUser, and genGateInfo up to node.open
setUserInfoEnter(c, t, a, next) ==
    Published("user:info", a,
        IF a[1] \notin DOMAIN c.usersbyiden THEN End(c, t, "NoSuchUser")
        ELSE IF a[4] = None \/ a[4] \in c.usersbyiden[a[1]].authgates
        THEN Go(c, [t EXCEPT !.info = a, !.next = next], "info.set")
        ELSE IF a[4] \notin DOMAIN c.authgates THEN End(c, t, "NoSuchAuthGate")
        ELSE Go(c, [t EXCEPT !.info = a, !.next = next], "node.open"))

\* Auth.setUserInfo from its first store call on
setUserInfoStep(c, t) ==
    LET iden == t.info[1]
        gateiden == t.info[4]
    IN  CASE t.pc = "node.open" ->
                Go([c EXCEPT !.hive.authgates[gateiden].users =
                        IF iden \in DOMAIN @ THEN @ ELSE Put(@, iden, GateInfoDefaults)],
                   t, "link")
          [] t.pc = "link" ->
                Go([c EXCEPT !.authgates[gateiden].gateusers = @ \cup {iden},
                             !.usersbyiden[iden].authgates = @ \cup {gateiden}],
                   t, "info.set")
          [] t.pc = "info.set" ->
                Go(IF gateiden = None
                   THEN [c EXCEPT !.hive.users[iden].info[t.info[2]] = t.info[3]]
                   ELSE [c EXCEPT !.hive.authgates[gateiden].users[iden][t.info[2]] = t.info[3]],
                   t, "clear")
          [] t.pc = "clear" -> Go(clearAuthCache(c, iden), t, t.next)

\* Auth.setRoleInfo up to its first store call
setRoleInfoEnter(c, t, a, next) ==
    Published("role:info", a,
        IF a[1] \notin DOMAIN c.rolesbyiden THEN End(c, t, "NoSuchRole")
        ELSE IF a[4] = None \/ a[4] \in c.rolesbyiden[a[1]].authgates
        THEN Go(c, [t EXCEPT !.info = a, !.next = next], "info.set")
        ELSE IF a[4] \notin DOMAIN c.authgates THEN End(c, t, "NoSuchAuthGate")
        ELSE Go(c, [t EXCEPT !.info = a, !.next = next], "node.open"))

\* Auth.setRoleInfo from its first store call on
setRoleInfoStep(c, t) ==
    LET iden == t.info[1]
        gateiden == t.info[4]
    IN  CASE t.pc = "node.open" ->
                Go([c EXCEPT !.hive.authgates[gateiden].roles =
                        IF iden \in DOMAIN @ THEN @ ELSE Put(@, iden, GateInfoDefaults)],
                   t, "link")
          [] t.pc = "link" ->
                Go([c EXCEPT !.authgates[gateiden].gateroles = @ \cup {iden},
                             !.rolesbyiden[iden].authgates = @ \cup {gateiden}],
                   t, "info.set")
          [] t.pc = "info.set" ->
                Go(IF gateiden = None
                   THEN [c EXCEPT !.hive.roles[iden].info[t.info[2]] = t.info[3]]
                   ELSE [c EXCEPT !.hive.authgates[gateiden].roles[iden][t.info[2]] = t.info[3]],
                   t, "clear")
          [] t.pc = "clear" -> Go(HiveRole_clearAuthCache(c, iden), t, t.next)

\* Auth.setUserName: the maps and user.name, then node.set
setUserNameStep(c, t) ==
    LET iden == t.args[1]
        name == t.args[2]
    IN  CASE t.pc = "start" ->
                Published("user:name", t.args,
                    IF name \in DOMAIN c.usersbyname THEN End(c, t, "DupUserName")
                    ELSE IF iden \notin DOMAIN c.usersbyiden THEN End(c, t, "NoSuchUser")
                    ELSE Go([c EXCEPT !.usersbyname =
                                        Put(Del(@, c.usersbyiden[iden].name), name, iden),
                                      !.usersbyiden[iden].name = name],
                            t, "node.set"))
          [] t.pc = "node.set" -> End([c EXCEPT !.hive.users[iden].valu = name], t, "ok")

\* Auth.setRoleName: the maps and role.name, then node.set
setRoleNameStep(c, t) ==
    LET iden == t.args[1]
        name == t.args[2]
    IN  CASE t.pc = "start" ->
                Published("role:name", t.args,
                    IF name \in DOMAIN c.rolesbyname THEN End(c, t, "DupRoleName")
                    ELSE IF iden \notin DOMAIN c.rolesbyiden THEN End(c, t, "NoSuchRole")
                    ELSE Go([c EXCEPT !.rolesbyname =
                                        Put(Del(@, c.rolesbyiden[iden].name), name, iden),
                                      !.rolesbyiden[iden].name = name],
                            t, "node.set"))
          [] t.pc = "node.set" -> End([c EXCEPT !.hive.roles[iden].valu = name], t, "ok")

\* Auth.addUser: _addUser (node.open and node.set make the node, then
\* _addUserNode), then user.grant('all')
addUserStep(c, t) ==
    LET iden == t.iden
        name == t.args[1]
    IN  CASE t.pc = "start" ->
                Published("user:add", <<iden, name>>,
                    IF name \in DOMAIN c.usersbyname THEN End(c, t, "DupUserName")
                    ELSE Go(c, t, "node.set"))
          [] t.pc = "node.set" ->
                Go([c EXCEPT !.hive.users =
                        Put(@, iden, [valu |-> name, info |-> UserInfoDefaults])],
                   t, "node")
          [] t.pc = "node" ->
                \* _addUserNode, and grant('all') up to setUserInfo
                Let(_addUserNode(c, iden),
                    LAMBDA user :
                        IF "all" \notin DOMAIN user.rolesbyname THEN End(user, t, "NoSuchRole")
                        ELSE setUserInfoEnter(user, [t EXCEPT !.valu = iden],
                                 <<iden, "roles",
                                   Append(UserInfo(user, iden).roles, user.rolesbyname["all"]),
                                   None>>,
                                 "done"))
          [] OTHER -> setUserInfoStep(c, t)

\* Auth.addRole: _addRole
addRoleStep(c, t) ==
    LET iden == t.iden
        name == t.args[1]
    IN  CASE t.pc = "start" ->
                Published("role:add", <<iden, name>>,
                    IF name \in DOMAIN c.rolesbyname THEN End(c, t, "DupRoleName")
                    ELSE Go(c, t, "node.set"))
          [] t.pc = "node.set" ->
                Go([c EXCEPT !.hive.roles =
                        Put(@, iden, [valu |-> name, info |-> RoleInfoDefaults])],
                   t, "node")
          [] t.pc = "node" -> End(_addRoleNode(c, iden), [t EXCEPT !.valu = iden], "ok")

\* Auth.delUser: the maps, then each gate (gateusers.pop, node.pop), then hive.pop
delUserStep(c, t) ==
    LET name == t.args[1]
    IN  CASE t.pc = "start" ->
                Published("user:del", t.args,
                    IF name = "root" THEN End(c, t, "CantDelRootUser")
                    ELSE IF name \notin DOMAIN c.usersbyname THEN End(c, t, "NoSuchUser")
                    ELSE Let(c.usersbyname[name],
                             LAMBDA iden :
                                Go([c EXCEPT !.usersbyiden = Del(@, iden),
                                             !.usersbyname = Del(@, c.usersbyiden[iden].name)],
                                   [t EXCEPT !.iden = iden, !.todo = DOMAIN c.authgates],
                                   "gates")))
          [] t.pc = "gates" ->
                IF t.todo = {} THEN Go(c, t, "hive.pop")
                ELSE Let(CHOOSE g \in t.todo : TRUE,
                         LAMBDA g :
                            Go([c EXCEPT !.authgates[g].gateusers = @ \ {t.iden}],
                               [t EXCEPT !.gate = g, !.todo = @ \ {g}], "gate.pop"))
          [] t.pc = "gate.pop" ->
                Go([c EXCEPT !.hive.authgates[t.gate].users = Del(@, t.iden)], t, "gates")
          [] t.pc = "hive.pop" -> End([c EXCEPT !.hive.users = Del(@, t.iden)], t, "ok")

\* HiveUser.revoke(role.name) of Auth.delRole, up to setUserInfo
delRoleRevoke(c, t, u) ==
    LET role == t.iden
        rname == c.rolesbyiden[role].name
        roles == UserInfo(c, u).roles
    IN  IF rname \notin DOMAIN c.rolesbyname THEN End(c, t, "NoSuchRole")
        ELSE IF c.rolesbyiden[c.rolesbyname[rname]].name = "all"
        THEN End(c, t, "CantRevokeAllRole")
        ELSE IF c.rolesbyname[rname] \notin Range(roles) THEN Go(c, t, "users")
        ELSE setUserInfoEnter(c, t, <<u, "roles", Remove(roles, c.rolesbyname[rname]), None>>,
                              "users")

\* Auth.delRole: each user in the role (revoke), each gate (gateroles.pop,
\* node.pop), the maps, then hive.pop
delRoleStep(c, t) ==
    LET name == t.args[1]
    IN  CASE t.pc = "start" ->
                Published("role:del", t.args,
                    IF name = "all" THEN End(c, t, "CantDelAllRole")
                    ELSE IF name \notin DOMAIN c.rolesbyname THEN End(c, t, "NoSuchRole")
                    ELSE Go(c, [t EXCEPT !.iden = c.rolesbyname[name],
                                         !.todo = _getUsersInRole(c, c.rolesbyname[name])],
                            "users"))
          [] t.pc = "users" ->
                IF t.todo = {} THEN Go(c, [t EXCEPT !.todo = DOMAIN c.authgates], "gates")
                ELSE Let(CHOOSE u \in t.todo : \A z \in t.todo : u <= z,
                         LAMBDA u : delRoleRevoke(c, [t EXCEPT !.todo = @ \ {u}], u))
          [] t.pc = "gates" ->
                IF t.todo = {} THEN Go(c, t, "maps")
                ELSE Let(CHOOSE g \in t.todo : TRUE,
                         LAMBDA g :
                            Go([c EXCEPT !.authgates[g].gateroles = @ \ {t.iden}],
                               [t EXCEPT !.gate = g, !.todo = @ \ {g}], "gate.pop"))
          [] t.pc = "gate.pop" ->
                Go([c EXCEPT !.hive.authgates[t.gate].roles = Del(@, t.iden)], t, "gates")
          [] t.pc = "maps" ->
                Go([c EXCEPT !.rolesbyiden = Del(@, t.iden),
                             !.rolesbyname = Del(@, c.rolesbyiden[t.iden].name)],
                   t, "hive.pop")
          [] t.pc = "hive.pop" -> End([c EXCEPT !.hive.roles = Del(@, t.iden)], t, "ok")
          [] OTHER -> setUserInfoStep(c, t)

\* Auth.addAuthGate: hive.open and hive.set make the node, then _addAuthGate
addAuthGateStep(c, t) ==
    LET iden == t.args[1]
        authgatetype == t.args[2]
    IN  CASE t.pc = "start" ->
                IF iden \in DOMAIN c.authgates
                THEN IF c.authgates[iden].type # authgatetype
                     THEN End(c, t, "InconsistentStorage")
                     ELSE End(c, t, "ok")
                ELSE Go(c, t, "hive.set")
          [] t.pc = "hive.set" ->
                Go([c EXCEPT !.hive.authgates =
                        Put(@, iden,
                            [valu |-> authgatetype,
                             users |-> IF iden \in DOMAIN @ THEN @[iden].users ELSE EmptyFn,
                             roles |-> IF iden \in DOMAIN @ THEN @[iden].roles ELSE EmptyFn])],
                   t, "anit")
          [] t.pc = "anit" -> End(AuthGate_anit(c, iden), t, "ok")

\* Auth.delAuthGate: gate.delete (the two loops, then node.pop), then
\* del self.authgates[iden]
delAuthGateStep(c, t) ==
    LET iden == t.args[1]
    IN  CASE t.pc = "start" ->
                IF iden \notin DOMAIN c.authgates THEN End(c, t, "NoSuchAuthGate")
                ELSE Go(Fold(LAMBDA a, r : deleteGateRole(a, iden, r),
                             Fold(LAMBDA a, u : deleteGateUser(a, iden, u), c,
                                  c.authgates[iden].gateusers),
                             c.authgates[iden].gateroles),
                        t, "node.pop")
          [] t.pc = "node.pop" ->
                Go([c EXCEPT !.hive.authgates = Del(@, iden)], t, "del")
          [] t.pc = "del" -> End([c EXCEPT !.authgates = Del(@, iden)], t, "ok")

\* the next step of the mutation t on the cell c
Step(c, t) ==
    CASE t.op = "setUserName" -> setUserNameStep(c, t)
      [] t.op = "setRoleName" -> setRoleNameStep(c, t)
      [] t.op = "setUserInfo" ->
            IF t.pc = "start" THEN setUserInfoEnter(c, t, t.args, "done")
            ELSE setUserInfoStep(c, t)
      [] t.op = "setRoleInfo" ->
            IF t.pc = "start" THEN setRoleInfoEnter(c, t, t.args, "done")
            ELSE setRoleInfoStep(c, t)
      [] t.op = "addUser" -> addUserStep(c, t)
      [] t.op = "addRole" -> addRoleStep(c, t)
      [] t.op = "delUser" -> delUserStep(c, t)
      [] t.op = "delRole" -> delRoleStep(c, t)
      [] t.op = "addAuthGate" -> addAuthGateStep(c, t)
      [] t.op = "delAuthGate" -> delAuthGateStep(c, t)

\* a caller calls a mutation; iden is what s_common.guid() gives it
Enter(op, args, iden) ==
    /\ task.op = "idle"
    /\ nops < MaxOps
    /\ task' = Entered(op, args, iden, Self)
    /\ nops' = nops + 1
    /\ UNCHANGED <<usersbyiden, usersbyname, rolesbyiden, rolesbyname, authgates,
                   allrole, rootuser, hive, nexs, ret, follower>>

\* the mutation in progress takes its next step; when that was its last,
\* its caller has what it returned or raised
Resume ==
    /\ task.op # "idle"
    /\ \E x \in {Step(Self, task)} :
        /\ usersbyiden' = x.c.usersbyiden
        /\ usersbyname' = x.c.usersbyname
        /\ rolesbyiden' = x.c.rolesbyiden
        /\ rolesbyname' = x.c.rolesbyname
        /\ authgates' = x.c.authgates
        /\ allrole' = x.c.allrole
        /\ rootuser' = x.c.rootuser
        /\ hive' = x.c.hive
        /\ nexs' = IF x.t.pc = "done" THEN task.evts \o x.evts ELSE nexs
        /\ task' = IF x.t.pc = "done" THEN Idle
                   ELSE [x.t EXCEPT !.evts = @ \o x.evts]
        /\ ret' = IF x.t.pc = "done"
                  THEN [op |-> task.op, args |-> task.args, exc |-> x.t.exc,
                        valu |-> x.t.valu]
                  ELSE ret
    /\ UNCHANGED <<nops, guids, follower>>

\* the mutations the callers call, and the queries of other tasks, which
\* run at any await of the mutation in progress
NextStep ==
    \/ \E name \in UserNames : Enter("addUser", <<name>>, guids + 1) /\ guids' = guids + 1
    \/ \E name \in RoleNames : Enter("addRole", <<name>>, guids + 1) /\ guids' = guids + 1
    \/ \E name \in UserNames : Enter("delUser", <<name>>, guids) /\ UNCHANGED guids
    \/ \E name \in RoleNames : Enter("delRole", <<name>>, guids) /\ UNCHANGED guids
    \/ \E iden \in UserIdens, name \in UserNames :
            Enter("setUserName", <<iden, name>>, iden) /\ UNCHANGED guids
    \/ \E iden \in RoleIdens, name \in RoleNames :
            Enter("setRoleName", <<iden, name>>, iden) /\ UNCHANGED guids
    \/ \E iden \in UserIdens, a \in UserInfoArgs, gateiden \in GateArgs :
            /\ gateiden # None => a[1] \in GateInfoNames
            /\ Enter("setUserInfo", <<iden, a[1], a[2], gateiden>>, iden)
            /\ UNCHANGED guids
    \/ \E iden \in RoleIdens, rules \in RuleLists, gateiden \in GateArgs :
            Enter("setRoleInfo", <<iden, "rules", rules, gateiden>>, iden) /\ UNCHANGED guids
    \/ \E iden \in GateIdens, authgatetype \in GateTypes :
            Enter("addAuthGate", <<iden, authgatetype>>, guids) /\ UNCHANGED guids
    \/ \E iden \in GateIdens : Enter("delAuthGate", <<iden>>, guids) /\ UNCHANGED guids
    \/ Resume
    \/ \E iden \in DOMAIN usersbyiden, pkey \in PermKeys : Allowed(iden, pkey)

SpecStep == Init /\ [][NextStep]_vars

----------------------------------------------------------------------------
(* The decision procedure as section 4.2 of the specification words it     *)

RefPrefix(path, perm) ==
    /\ Len(path) <= Len(perm)
    /\ \A i \in 1..Len(path) : path[i] = perm[i]

\* the allow of the first rule of the list that matches
RefFirst(rules, perm) ==
    LET hits == {i \in 1..Len(rules) : RefPrefix(rules[i][2], perm)}
    IN  IF hits = {} THEN NoMatch
        ELSE Dec(rules[CHOOSE i \in hits : \A j \in hits : i <= j][1])

RECURSIVE RefCat(_)
RefCat(lists) == IF lists = <<>> THEN <<>> ELSE Head(lists) \o RefCat(Tail(lists))

RefAllowed(c, iden, pkey) ==
    LET perm == pkey[1]
        gate == pkey[3]
        user == c.hive.users[iden].info
        roles == SelectSeq(user.roles, LAMBDA r : r \in DOMAIN c.rolesbyiden)
        overlay == gate # None /\ gate \in c.usersbyiden[iden].authgates
        gaterules(r) == IF gate \in c.rolesbyiden[r].authgates
                        THEN c.hive.authgates[gate].roles[r].rules ELSE <<>>
        steps ==
            << IF user.locked THEN "False" ELSE NoMatch,
               IF user.admin THEN "True" ELSE NoMatch,
               IF ~overlay THEN NoMatch
               ELSE IF c.hive.authgates[gate].users[iden].admin THEN "True"
               ELSE RefFirst(c.hive.authgates[gate].users[iden].rules, perm),
               RefFirst(user.rules, perm),
               IF gate = None THEN NoMatch
               ELSE RefFirst(RefCat([i \in 1..Len(roles) |-> gaterules(roles[i])]), perm),
               RefFirst(RefCat([i \in 1..Len(roles) |-> c.hive.roles[roles[i]].info.rules]),
                        perm),
               pkey[2] >>
    IN  steps[CHOOSE i \in 1..7 : steps[i] # NoMatch /\ \A j \in 1..(i - 1) : steps[j] = NoMatch]

----------------------------------------------------------------------------
(* Properties *)

\* what U.allowed(perm, default, gate) returns in the state of the engine
Decision(c, iden, pkey) == allowed(c, iden, pkey).valu

\* C1: cache coherence.  In every state, for every live user and every key
\* (perm, default, gate), what allowed() returns, from the cache or not, is
\* what the evaluator computes from scratch on the current state.
CacheCoherence ==
    \A u \in DOMAIN usersbyiden : \A k \in PermKeys :
        Decision(Self, u, k) = _allowed(Self, u, k)

\* a mutation has completed and a user still holds cached decisions
CacheCoherenceWitness ==
    /\ ret.op = "setRoleInfo" /\ ret.exc = "ok"
    /\ \E u \in DOMAIN usersbyiden : usersbyiden[u].permcache # EmptyFn

\* C2: on a cache miss allowed() returns what the seven steps of the
\* specification give, taken in their order.
EvaluatorOrder ==
    (ret.op = "allowed" /\ ~ret.args[3]) =>
        ret.valu = RefAllowed(Self, ret.args[1], ret.args[2])

\* a miss that step 5 decided, against what step 6 would have said
EvaluatorOrderWitness ==
    /\ ret.op = "allowed" /\ ~ret.args[3]
    /\ \E u \in {ret.args[1]}, k \in {ret.args[2]} :
        /\ ~UserInfo(Self, u).locked /\ ~UserInfo(Self, u).admin
        /\ k[3] # None
        /\ scanGateUser(Self, u, k[3], k[1]) = NoMatch
        /\ scanRules(UserInfo(Self, u).rules, k[1]) = NoMatch
        /\ scanGateRoles(Self, getRoles(Self, u), k[3], k[1]) = "True"
        /\ scanRoles(Self, getRoles(Self, u), k[1]) = "False"
        /\ ret.valu = "True"

\* C3: a locked user is denied everything, whatever the default and the
\* gate, admin or not.
LockedDenied ==
    \A u \in DOMAIN usersbyiden :
        UserInfo(Self, u).locked => \A k \in PermKeys : Decision(Self, u, k) = "False"

\* allowed() has answered a locked admin
LockedDeniedWitness ==
    /\ ret.op = "allowed" /\ ret.valu = "False"
    /\ UserInfo(Self, ret.args[1]).locked
    /\ UserInfo(Self, ret.args[1]).admin

\* C4: an admin that is not locked is allowed everything.
AdminAllowed ==
    \A u \in DOMAIN usersbyiden :
        (UserInfo(Self, u).admin /\ ~UserInfo(Self, u).locked) =>
            \A k \in PermKeys : Decision(Self, u, k) = "True"

\* allowed() has answered an unlocked admin whose roles deny the permission
AdminAllowedWitness ==
    /\ ret.op = "allowed" /\ ret.valu = "True"
    /\ UserInfo(Self, ret.args[1]).admin /\ ~UserInfo(Self, ret.args[1]).locked
    /\ scanRoles(Self, getRoles(Self, ret.args[1]), ret.args[2][1]) = "False"

\* C5: the roles of every user hold the iden of the `all` role.
AllRoleHeld ==
    \A u \in DOMAIN usersbyiden : allrole \in Range(UserInfo(Self, u).roles)

\* C6: the user made as `root` and the role made as `all` when Auth was
\* built are in the maps of the engine.
SingletonsKept ==
    /\ rootuser \in DOMAIN usersbyiden
    /\ allrole \in DOMAIN rolesbyiden

\* C7: no two users share a name and no two roles share a name.
NamesUnique ==
    /\ Cardinality({usersbyiden[u].name : u \in DOMAIN usersbyiden})
            = Cardinality(DOMAIN usersbyiden)
    /\ Cardinality({rolesbyiden[r].name : r \in DOMAIN rolesbyiden})
            = Cardinality(DOMAIN rolesbyiden)

\* a user was renamed while another user exists
NamesUniqueWitness ==
    /\ ret.op = "setUserName" /\ ret.exc = "ok"
    /\ Cardinality(DOMAIN usersbyiden) >= 2

\* the engine a new Auth builds on the persisted store
Rebuilt == Auth_anit(hive, guids).c

\* C8 as stated: Auth built again on the store decides every (user, perm,
\* gate) as the engine does, the root user with a changed admin or locked
\* flag included.
RoundTrip ==
    \A r \in {Rebuilt} : \A u \in DOMAIN usersbyiden : \A k \in PermKeys :
        Decision(r, u, k) = Decision(Self, u, k)

\* C8, amended: Auth built again on the store decides every (user, perm,
\* gate) as the engine does, for every user but the one named root; for the
\* user named root it does when that user is admin and not locked, which is
\* what __anit__ makes it.
RoundTripButRoot ==
    \A r \in {Rebuilt} : \A u \in DOMAIN usersbyiden :
        (usersbyiden[u].name # "root"
            \/ (UserInfo(Self, u).admin /\ ~UserInfo(Self, u).locked)) =>
                \A k \in PermKeys : Decision(r, u, k) = Decision(Self, u, k)

\* a user other than root was given rules or admin on a gate, and the gate
\* changes what it is allowed
RoundTripWitness ==
    /\ ret.op = "setUserInfo" /\ ret.exc = "ok" /\ ret.args[4] # None
    /\ usersbyiden[ret.args[1]].name # "root"
    /\ \E perm \in Perms :
            Decision(Self, ret.args[1], <<perm, None, ret.args[4]>>)
                # Decision(Self, ret.args[1], <<perm, None, None>>)

\* what two engines are compared on: users and roles with their names,
\* flags, rules, role lists and overlays; not the decision caches, and not
\* the password shadow
View(c) ==
    [users |-> [u \in DOMAIN c.usersbyiden |->
                    [name |-> c.usersbyiden[u].name,
                     valu |-> c.hive.users[u].valu,
                     info |-> [UserInfo(c, u) EXCEPT !.passwd = <<>>],
                     authgates |-> [g \in c.usersbyiden[u].authgates |->
                                        GateUserInfo(c, g, u)]]],
     usersbyname |-> c.usersbyname,
     roles |-> [r \in DOMAIN c.rolesbyiden |->
                    [name |-> c.rolesbyiden[r].name,
                     valu |-> c.hive.roles[r].valu,
                     info |-> RoleInfo(c, r),
                     authgates |-> [g \in c.rolesbyiden[r].authgates |->
                                        GateRoleInfo(c, g, r)]]],
     rolesbyname |-> c.rolesbyname]

\* the gates of an engine and what it persists of them
GateView(c) == [authgates |-> c.authgates, nodes |-> c.hive.authgates]

Funnelled ==
    [][(ret'.op # "anit" /\ (hive'.users # hive.users \/ hive'.roles # hive.roles)) =>
            /\ nexs' # <<>>
            /\ \A u \in DOMAIN hive.users \cap DOMAIN hive'.users :
                    hive'.users[u].info # hive.users[u].info =>
                        usersbyiden'[u].permcache = EmptyFn]_vars

----------------------------------------------------------------------------
(* Mutations and their suspension points *)

\* the mutation t as one call on the cell it was called on
Whole(t) ==
    CASE t.op = "setUserName" -> setUserName(t.from, t.args[1], t.args[2])
      [] t.op = "setRoleName" -> setRoleName(t.from, t.args[1], t.args[2])
      [] t.op = "setUserInfo" ->
            setUserInfo(t.from, t.args[1], t.args[2], t.args[3], t.args[4])
      [] t.op = "setRoleInfo" ->
            setRoleInfo(t.from, t.args[1], t.args[2], t.args[3], t.args[4])
      [] t.op = "addUser" -> addUser(t.from, t.iden, t.args[1])
      [] t.op = "addRole" -> addRole(t.from, t.iden, t.args[1])
      [] t.op = "delUser" -> delUser(t.from, t.args[1])
      [] t.op = "delRole" -> delRole(t.from, t.args[1])
      [] t.op = "addAuthGate" -> addAuthGate(t.from, t.args[1], t.args[2])
      [] t.op = "delAuthGate" -> delAuthGate(t.from, t.args[1])

\* the steps of a mutation add up to the mutation taken as one call: when
\* its last step is taken the store, the users, roles and gates, what was
\* published and what is raised are those of the one call
StepsAgree ==
    [][(task.op # "idle" /\ task'.op = "idle") =>
            \E r \in {Whole(task)} :
                /\ hive' = r.c.hive
                /\ View(Self)' = View(r.c)
                /\ GateView(Self)' = GateView(r.c)
                /\ nexs' = r.evts
                /\ ret'.exc = r.exc]_vars

\* the users, roles and gates the maps of the engine hold, with the names
\* they are found by
InMemory ==
    [users |-> [u \in DOMAIN usersbyiden |-> usersbyiden[u].name],
     usersbyname |-> usersbyname,
     roles |-> [r \in DOMAIN rolesbyiden |-> rolesbyiden[r].name],
     rolesbyname |-> rolesbyname,
     gates |-> [g \in DOMAIN authgates |-> authgates[g].type]]

\* the users, roles and gates of the store, with the names a new Auth would
\* find them by
Persisted ==
    [users |-> [u \in DOMAIN hive.users |-> hive.users[u].valu],
     usersbyname |-> [n \in {hive.users[u].valu : u \in DOMAIN hive.users} |->
                        CHOOSE u \in DOMAIN hive.users : hive.users[u].valu = n],
     roles |-> [r \in DOMAIN hive.roles |-> hive.roles[r].valu],
     rolesbyname |-> [n \in {hive.roles[r].valu : r \in DOMAIN hive.roles} |->
                        CHOOSE r \in DOMAIN hive.roles : hive.roles[r].valu = n],
     gates |-> [g \in DOMAIN hive.authgates |-> hive.authgates[g].valu]]

\* C11: in a mutation the in-memory maps are changed only after the store
\* call has returned: every step that changes the users, roles, gates or
\* names the maps hold changes them to what the store holds by then, so a
\* mutation that stops at an await leaves maps a new Auth would load.
StoreFirst == [][InMemory' # InMemory => InMemory' = Persisted']_vars

\* C12: while a mutation is suspended at a store call, allowed() called by
\* another task returns, for every live user and every key, what the
\* evaluator computes on the state visible at that moment: no cached
\* decision is served between the write of setUserInfo or setRoleInfo and
\* the clearing of the caches.
ServedCoherent ==
    task.op # "idle" =>
        \A u \in DOMAIN usersbyiden : \A k \in PermKeys :
            Decision(Self, u, k) = _allowed(Self, u, k)

----------------------------------------------------------------------------
(* The lifecycle of a user *)

LifecycleFrame ==
    [][/\ (ret'.op = "setArchived" /\ ret'.exc = "ok" /\ ret'.args[2]) =>
            hive' = [hive EXCEPT !.users[ret'.args[1]].info.archived = TRUE,
                                 !.users[ret'.args[1]].info.locked = TRUE]
       /\ (ret'.op = "setArchived" /\ ret'.exc = "ok" /\ ~ret'.args[2]) =>
            hive' = [hive EXCEPT !.users[ret'.args[1]].info.archived = FALSE]
       /\ (/\ ret'.op = "setUserInfo" /\ ret'.exc = "ok"
           /\ ret'.args[2] = "locked" /\ ret'.args[4] = None
           /\ hive.users[ret'.args[1]].info.archived) =>
            hive' = [hive EXCEPT !.users[ret'.args[1]].info.locked = ret'.args[3]]
      ]_vars

\* setArchived(false) has unarchived a user, who is still locked
LifecycleFrameWitness ==
    /\ ret.op = "setArchived" /\ ret.exc = "ok" /\ ~ret.args[2]
    /\ ~UserInfo(Self, ret.args[1]).archived
    /\ UserInfo(Self, ret.args[1]).locked

----------------------------------------------------------------------------
(* Role lists *)

\* C15: in every state every user's roles list holds no iden twice and
\* every iden in it is the iden of an existing role.
RolesWellFormed ==
    \A u \in DOMAIN usersbyiden :
        \E roles \in {UserInfo(Self, u).roles} :
            /\ \A i, j \in 1..Len(roles) : roles[i] = roles[j] => i = j
            /\ \A i \in 1..Len(roles) : roles[i] \in DOMAIN rolesbyiden

\* delRole has deleted a role that a user held, and revoked it
RolesWellFormedWitness ==
    /\ ret.op = "delRole" /\ ret.exc = "ok"
    /\ \E i \in 1..Len(nexs) : nexs[i].tag = "user:info" /\ nexs[i].args[2] = "roles"

\* C16: grant(r) on a user who holds r and revoke(r) on a user who does not
\* hold r change nothing, neither the roles list nor its order nor the
\* store nor a cache, and publish no event; so grant(r) twice leaves what
\* grant(r) once leaves.
GrantIdempotent ==
    [][/\ (/\ ret'.op = "grant"
           /\ ret'.args[2] \in DOMAIN rolesbyname
           /\ rolesbyname[ret'.args[2]] \in Range(UserInfo(Self, ret'.args[1]).roles)) =>
                (Self' = Self /\ nexs' = <<>> /\ ret'.exc = "ok")
       /\ (/\ ret'.op = "revoke"
           /\ ret'.args[2] \in DOMAIN rolesbyname
           /\ rolesbyname[ret'.args[2]] \notin Range(UserInfo(Self, ret'.args[1]).roles)) =>
                (Self' = Self /\ nexs' = <<>>)
      ]_vars

\* grant has returned for a role the user held: it published nothing
GrantIdempotentWitness ==
    /\ ret.op = "grant" /\ ret.exc = "ok" /\ nexs = <<>>
    /\ rolesbyname[ret.args[2]] \in Range(UserInfo(Self, ret.args[1]).roles)

----------------------------------------------------------------------------
(* What a deletion leaves *)

\* C17: when delRole(name) has returned, the role is in neither map and not
\* in the store, no user's roles list holds its iden, no gate holds it in
\* gateroles or in its subtree of the store, and every user who held the
\* role has an empty decision cache.
DelRoleClean ==
    [][(ret'.op = "delRole" /\ ret'.exc = "ok") =>
            \E r \in {rolesbyname[ret'.args[1]]} :
                /\ r \notin DOMAIN rolesbyiden'
                /\ \A n \in DOMAIN rolesbyname' : rolesbyname'[n] # r
                /\ r \notin DOMAIN hive'.roles
                /\ \A u \in DOMAIN usersbyiden' : r \notin Range(hive'.users[u].info.roles)
                /\ \A g \in DOMAIN authgates' :
                        /\ r \notin authgates'[g].gateroles
                        /\ r \notin DOMAIN hive'.authgates[g].roles
                /\ \A u \in DOMAIN usersbyiden :
                        hasRole(Self, u, r) => usersbyiden'[u].permcache = EmptyFn
      ]_vars

\* delRole has deleted a role that a user held, on an engine with a gate
DelRoleCleanWitness ==
    /\ ret.op = "delRole" /\ ret.exc = "ok"
    /\ Len(nexs) > 1
    /\ DOMAIN authgates # {}

\* C18: when delUser(name) has returned, the user is in neither map and not
\* in the store, and for every gate the user is not in gateusers and its
\* overlay is not in the subtree of the gate in the store.
DelUserClean ==
    [][(ret'.op = "delUser" /\ ret'.exc = "ok") =>
            \E u \in {usersbyname[ret'.args[1]]} :
                /\ u \notin DOMAIN usersbyiden'
                /\ \A n \in DOMAIN usersbyname' : usersbyname'[n] # u
                /\ u \notin DOMAIN hive'.users
                /\ \A g \in DOMAIN authgates' : u \notin authgates'[g].gateusers
                /\ \A g \in DOMAIN hive'.authgates : u \notin DOMAIN hive'.authgates[g].users
      ]_vars

\* delUser has deleted a user, on an engine with a gate
DelUserCleanWitness ==
    /\ ret.op = "delUser" /\ ret.exc = "ok"
    /\ DOMAIN authgates # {}
    /\ ret.args[1] \notin DOMAIN usersbyname

\* C19: when delAuthGate(g) has returned, g is not retrievable (delAuthGate(g)
\* again raises NoSuchAuthGate), no user and no role holds an overlay for
\* g, the subtree of g is not in the store, and every user that had an
\* overlay on g or holds a role that had one has an empty decision cache.
DelAuthGateClean ==
    [][(ret'.op = "delAuthGate" /\ ret'.exc = "ok") =>
            \E g \in {ret'.args[1]} :
                /\ g \notin DOMAIN authgates'
                /\ delAuthGate(Self', g).exc = "NoSuchAuthGate"
                /\ \A u \in DOMAIN usersbyiden' : g \notin usersbyiden'[u].authgates
                /\ \A r \in DOMAIN rolesbyiden' : g \notin rolesbyiden'[r].authgates
                /\ g \notin DOMAIN hive'.authgates
                /\ \A u \in DOMAIN usersbyiden :
                        (\/ g \in usersbyiden[u].authgates
                         \/ \E r \in DOMAIN rolesbyiden :
                                g \in rolesbyiden[r].authgates /\ hasRole(Self, u, r)) =>
                            usersbyiden'[u].permcache = EmptyFn
      ]_vars

\* delAuthGate has deleted the gate of the used engine, on which user bob
\* and role ops had overlays
DelAuthGateCleanWitness ==
    /\ ret.op = "delAuthGate" /\ ret.exc = "ok"
    /\ "bob" \in DOMAIN usersbyname
    /\ "ops" \in DOMAIN rolesbyname
    /\ hasRole(Self, usersbyname["bob"], rolesbyname["ops"])

----------------------------------------------------------------------------
(* The type of a gate *)

\* C20: the type of a gate never changes while the gate exists.  addAuthGate
\* on the iden of a gate the engine holds returns that gate and changes
\* nothing when the type is the gate's, and raises InconsistentStorage and
\* changes nothing when it is not.
GateTypeKept ==
    [][/\ \A g \in DOMAIN authgates \cap DOMAIN authgates' :
            /\ authgates'[g].type = authgates[g].type
            /\ hive'.authgates[g].valu = hive.authgates[g].valu
       /\ (ret'.op = "addAuthGate" /\ ret'.args[1] \in DOMAIN authgates) =>
            /\ Self' = Self
            /\ nexs' = <<>>
            /\ ret'.exc = IF authgates[ret'.args[1]].type = ret'.args[2] THEN "ok"
                          ELSE "InconsistentStorage"
      ]_vars

\* addAuthGate was called on a gate the engine holds, with another type
GateTypeKeptWitness ==
    /\ ret.op = "addAuthGate" /\ ret.exc = "InconsistentStorage"
    /\ authgates[ret.args[1]].type # ret.args[2]

----------------------------------------------------------------------------
(* Errors *)

\* the validation errors of the mutations, each with the operation that
\* raises it
Rejected ==
    { <<"addUser", "DupUserName">>, <<"addRole", "DupRoleName">>,
      <<"setUserName", "DupUserName">>, <<"setUserName", "NoSuchUser">>,
      <<"setRoleName", "DupRoleName">>, <<"setRoleName", "NoSuchRole">>,
      <<"delUser", "CantDelRootUser">>, <<"delUser", "NoSuchUser">>,
      <<"delRole", "CantDelAllRole">>, <<"delRole", "NoSuchRole">>,
      <<"revoke", "CantRevokeAllRole">>, <<"revoke", "NoSuchRole">> }

\* C21: when a mutation raises one of its validation errors, the maps, the
\* roles and rules of every user, the overlays and the store are as they
\* were before the call.
FailureAtomic == [][(<<ret'.op, ret'.exc>> \in Rejected) => Self' = Self]_vars

\* addRole was called with the name of a role and raised DupRoleName
FailureAtomicWitness ==
    /\ ret.op = "addRole" /\ ret.exc = "DupRoleName"
    /\ ret.args[1] \in DOMAIN rolesbyname

\* C22: confirm(perm, default, gate) returns when the decision is true and
\* raises AuthDeny, and nothing else, when it is not, whatever the gate
\* argument, the iden of no gate included.
ConfirmDenies ==
    ret.op = "confirm" =>
        ret.exc = IF Decision(Self, ret.args[1], ret.args[2]) = "True" THEN "ok"
                  ELSE "AuthDeny"

----------------------------------------------------------------------------
(* Construction *)

\* C23: when Auth has been built, on a fresh store or on one that was used,
\* a user named root and a role named all exist, that user is admin and not
\* locked, and setting the two flags published nothing: every user:info
\* event of the construction is the grant of a role.
Bootstrapped ==
    ret.op = "anit" =>
        /\ "all" \in DOMAIN rolesbyname
        /\ "root" \in DOMAIN usersbyname
        /\ rootuser = usersbyname["root"]
        /\ UserInfo(Self, rootuser).admin
        /\ ~UserInfo(Self, rootuser).locked
        /\ \A i \in 1..Len(nexs) : nexs[i].tag = "user:info" => nexs[i].args[2] = "roles"

\* Auth was built again on the store of an engine whose root user had been
\* archived, hence locked
BootstrappedWitness ==
    /\ ret.op = "anit" /\ nops > 0
    /\ UserInfo(Self, rootuser).archived
    /\ ~UserInfo(Self, rootuser).locked

\* C24: re-entry is idempotent.  Auth built again on the store of any
\* reachable state has the users and roles of the store and no other: it
\* makes no user and no role and publishes no user:add and no role:add.
Reentrant ==
    \A r \in {Auth_anit(hive, guids)} :
        /\ DOMAIN r.c.usersbyiden = DOMAIN hive.users
        /\ DOMAIN r.c.rolesbyiden = DOMAIN hive.roles
        /\ \A i \in 1..Len(r.evts) : r.evts[i].tag \notin {"user:add", "role:add"}

----------------------------------------------------------------------------
(* What is published *)

\* C25: addUser(name) on a name no user has publishes user:add(iden, name)
\* and then one user:info that sets the roles of the new user to a list
\* with the role all, and nothing else; when it returns the user exists and
\* holds all.
AddUserTwoStep ==
    (ret.op = "addUser" /\ ret.exc # "DupUserName") =>
        /\ ret.exc = "ok"
        /\ guids \in DOMAIN usersbyiden
        /\ usersbyiden[guids].name = ret.args[1]
        /\ hasRole(Self, guids, allrole)
        /\ Len(nexs) = 2
        /\ nexs[1] = [tag |-> "user:add", args |-> <<guids, ret.args[1]>>]
        /\ nexs[2].tag = "user:info"
        /\ nexs[2].args[1] = guids /\ nexs[2].args[2] = "roles"
        /\ allrole \in Range(nexs[2].args[3])

\* C26: when setUserName(iden, name) has returned, the decision cache of
\* the renamed user is empty; when setRoleName(iden, name) has returned,
\* the decision cache of every user holding the role is empty.
RenameClears ==
    /\ (ret.op = "setUserName" /\ ret.exc = "ok") =>
            usersbyiden[ret.args[1]].permcache = EmptyFn
    /\ (ret.op = "setRoleName" /\ ret.exc = "ok") =>
            \A u \in DOMAIN usersbyiden :
                hasRole(Self, u, ret.args[1]) => usersbyiden[u].permcache = EmptyFn

\* the tag each replicated mutation publishes its event under
TagOf ==
    [addUser |-> "user:add", delUser |-> "user:del", setUserName |-> "user:name",
     setUserInfo |-> "user:info", addRole |-> "role:add", delRole |-> "role:del",
     setRoleName |-> "role:name", setRoleInfo |-> "role:info"]

\* C27: addAuthGate and delAuthGate publish nothing; every addUser, delUser,
\* addRole, delRole, setUserName, setRoleName, setUserInfo and setRoleInfo
\* that returns has published its event, under its tag, first.
GatesUnpublished ==
    /\ ret.op \in {"addAuthGate", "delAuthGate"} => nexs = <<>>
    /\ (ret.op \in DOMAIN TagOf /\ ret.exc = "ok") =>
            /\ nexs # <<>>
            /\ nexs[1].tag = TagOf[ret.op]
            /\ nexs[1].args = IF ret.op \in {"addUser", "addRole"} THEN <<guids>> \o ret.args
                              ELSE ret.args

\* delAuthGate has deleted a gate and published nothing
GatesUnpublishedWitness ==
    /\ ret.op = "delAuthGate" /\ ret.exc = "ok"
    /\ nexs = <<>>
    /\ DOMAIN authgates = {}

----------------------------------------------------------------------------
(* Passwords *)

\* C28: the password law, the hash being injective.  tryPasswd is false of
\* a user that is locked or has no shadow; when setPasswd(p) has returned
\* for an unlocked user, tryPasswd(p) is true and tryPasswd(q) is false for
\* every other q; setPasswd with an empty value or a value that is not a
\* string raises BadArg, and then the store is as it was.
PasswordLaw ==
    [][/\ \A u \in DOMAIN usersbyiden' : \A q \in Guesses :
            (UserInfo(Self', u).locked \/ UserInfo(Self', u).passwd = <<>>) =>
                ~tryPasswd(Self', u, q)
       /\ (ret'.op = "setPasswd" /\ ret'.exc = "ok") =>
            /\ ret'.args[2] \notin NonStr /\ ret'.args[2] # ""
            /\ \A q \in Guesses :
                    tryPasswd(Self', ret'.args[1], q) =
                        (q = ret'.args[2] /\ ~UserInfo(Self', ret'.args[1]).locked)
       /\ (ret'.op = "setPasswd" /\ ret'.exc # "ok") =>
            /\ ret'.exc = "BadArg"
            /\ ret'.args[2] \in NonStr \cup {""}
            /\ Self' = Self
      ]_vars

\* setPasswd has given an unlocked user a password, which tryPasswd accepts
PasswordLawWitness ==
    /\ ret.op = "setPasswd" /\ ret.exc = "ok"
    /\ ~UserInfo(Self, ret.args[1]).locked
    /\ tryPasswd(Self, ret.args[1], ret.args[2])
    /\ \E q \in Guesses : ~tryPasswd(Self, ret.args[1], q)

----------------------------------------------------------------------------
(* Gates and keys *)

\* the cell c with every overlay on a gate other than g dropped
Masked(c, g) ==
    [c EXCEPT !.usersbyiden = [u \in DOMAIN @ |-> [@[u] EXCEPT !.authgates = @ \cap {g}]],
              !.rolesbyiden = [r \in DOMAIN @ |-> [@[r] EXCEPT !.authgates = @ \cap {g}]],
              !.authgates = [x \in DOMAIN @ |->
                                IF x = g THEN @[x]
                                ELSE [@[x] EXCEPT !.gateusers = {}, !.gateroles = {}]],
              !.hive.authgates = [x \in DOMAIN @ |->
                                    IF x = g THEN @[x]
                                    ELSE [@[x] EXCEPT !.users = EmptyFn, !.roles = EmptyFn]]]

\* C29: gate isolation.  What allowed(perm, default, gate) returns is what
\* the evaluator computes on the state with every overlay on another gate
\* dropped: states that differ in the overlays on other gates only give one
\* decision, and a query without a gate is that of the state without any
\* overlay, overlay admin included.
GateIsolation ==
    \A u \in DOMAIN usersbyiden : \A k \in GateKeys :
        Decision(Self, u, k) = _allowed(Masked(Self, k[3]), u, k)

\* a user has an overlay on each of two gates, and is allowed on one what
\* it is denied on the other
GateIsolationWitness ==
    /\ ret.op = "allowed"
    /\ \E u \in DOMAIN usersbyiden :
        /\ usersbyiden[u].authgates = {"g1", OtherGate}
        /\ Decision(Self, u, <<<<"a">>, None, "g1">>) = "True"
        /\ Decision(Self, u, <<<<"a">>, None, OtherGate>>) = "False"
        /\ Decision(Self, u, <<<<"a">>, None, None>>) = None

\* no rule decides the key k for user u: the user is neither locked nor
\* admin and none of the four scans finds a rule
Unmatched(c, u, k) ==
    /\ ~UserInfo(c, u).locked
    /\ ~UserInfo(c, u).admin
    /\ scanGateUser(c, u, k[3], k[1]) = NoMatch
    /\ scanRules(UserInfo(c, u).rules, k[1]) = NoMatch
    /\ k[3] # None => scanGateRoles(c, getRoles(c, u), k[3], k[1]) = NoMatch
    /\ scanRoles(c, getRoles(c, u), k[1]) = NoMatch

\* C30: the cache is keyed by the triple (perm, default, gate).  When no
\* rule matches, allowed(perm, d, g) returns d, for every d, whatever was
\* asked before of the same perm with another default or another gate; the
\* call that has just returned did so too.
KeyedByTriple ==
    /\ \A u \in DOMAIN usersbyiden : \A k \in GateKeys :
            Unmatched(Self, u, k) => Decision(Self, u, k) = k[2]
    /\ (ret.op = "allowed" /\ Unmatched(Self, ret.args[1], ret.args[2])) =>
            ret.valu = ret.args[2][2]

\* allowed has returned the default it was called with, for a perm the
\* cache already held with another default or another gate and another
\* decision
KeyedByTripleWitness ==
    /\ ret.op = "allowed"
    /\ Unmatched(Self, ret.args[1], ret.args[2])
    /\ ~ret.args[3]
    /\ \E k \in DOMAIN usersbyiden[ret.args[1]].permcache :
            /\ k # ret.args[2]
            /\ k[1] = ret.args[2][1]
            /\ usersbyiden[ret.args[1]].permcache[k] # ret.valu

----------------------------------------------------------------------------
(* The links between principals and gates *)

----------------------------------------------------------------------------
(* Overlays are made by setUserInfo and setRoleInfo on a gate Auth holds *)

\* C32: setUserInfo on a user, and setRoleInfo on a role, naming a gate iden
\* that Auth does not hold raises NoSuchAuthGate and leaves the engine and
\* the store as they were: no overlay, and the rules, flags and caches
\* untouched.  A handle of a user or role on a gate, and the node of a
\* principal under a gate of the store, appear only in a step in which
\* setUserInfo or setRoleInfo returned for that principal and a gate that
\* Auth held.
OverlayOnHeldGate ==
    [][/\ (/\ ret'.op = "setUserInfo"
           /\ ret'.args[1] \in DOMAIN usersbyiden
           /\ ret'.args[4] # None
           /\ ret'.args[4] \notin DOMAIN authgates) =>
                (ret'.exc = "NoSuchAuthGate" /\ Self' = Self)
       /\ (/\ ret'.op = "setRoleInfo"
           /\ ret'.args[1] \in DOMAIN rolesbyiden
           /\ ret'.args[4] # None
           /\ ret'.args[4] \notin DOMAIN authgates) =>
                (ret'.exc = "NoSuchAuthGate" /\ Self' = Self)
       /\ \A u \in DOMAIN usersbyiden \cap DOMAIN usersbyiden' :
            \A g \in usersbyiden'[u].authgates \ usersbyiden[u].authgates :
                /\ ret'.op = "setUserInfo" /\ ret'.exc = "ok"
                /\ ret'.args[1] = u /\ ret'.args[4] = g
                /\ g \in DOMAIN authgates
       /\ \A r \in DOMAIN rolesbyiden \cap DOMAIN rolesbyiden' :
            \A g \in rolesbyiden'[r].authgates \ rolesbyiden[r].authgates :
                /\ ret'.op = "setRoleInfo" /\ ret'.exc = "ok"
                /\ ret'.args[1] = r /\ ret'.args[4] = g
                /\ g \in DOMAIN authgates
       /\ \A g \in DOMAIN hive'.authgates :
            /\ \A u \in DOMAIN hive'.authgates[g].users :
                    (g \in DOMAIN hive.authgates => u \notin DOMAIN hive.authgates[g].users) =>
                        /\ ret'.op = "setUserInfo" /\ ret'.exc = "ok"
                        /\ ret'.args[1] = u /\ ret'.args[4] = g
                        /\ g \in DOMAIN authgates
            /\ \A r \in DOMAIN hive'.authgates[g].roles :
                    (g \in DOMAIN hive.authgates => r \notin DOMAIN hive.authgates[g].roles) =>
                        /\ ret'.op = "setRoleInfo" /\ ret'.exc = "ok"
                        /\ ret'.args[1] = r /\ ret'.args[4] = g
                        /\ g \in DOMAIN authgates
      ]_vars

\* setUserInfo named a gate that Auth does not hold, for a user whose cache
\* holds a decision, and raised NoSuchAuthGate
OverlayOnHeldGateWitness ==
    /\ ret.op = "setUserInfo" /\ ret.exc = "NoSuchAuthGate"
    /\ ret.args[1] \in DOMAIN usersbyiden
    /\ ret.args[4] \notin DOMAIN authgates
    /\ usersbyiden[ret.args[1]].permcache # EmptyFn

----------------------------------------------------------------------------
(* delAuthGate is not pushed through the Nexus: setUserInfo and setRoleInfo *)
(* can run while it is suspended                                            *)

\* delAuthGate is suspended at `await self.node.pop()` of gate.delete(): the
\* handles are dropped, the caches cleared, and the store still has the node
AtNodePop == task.op = "delAuthGate" /\ task.pc = "node.pop"

\* the gate calls taken from await to await, and the setUserInfo and
\* setRoleInfo calls on the gate that another task makes while delAuthGate
\* is suspended at its store operation
NextRace ==
    \/ \E iden \in GateIdens, authgatetype \in GateTypes :
            Enter("addAuthGate", <<iden, authgatetype>>, guids) /\ UNCHANGED guids
    \/ \E iden \in GateIdens : Enter("delAuthGate", <<iden>>, guids) /\ UNCHANGED guids
    \/ Resume
    \/ \E iden \in UserIdens, a \in UserInfoArgs :
            /\ AtNodePop
            /\ a[1] \in GateInfoNames
            /\ SetUserInfo(iden, a[1], a[2], task.args[1])
    \/ \E iden \in RoleIdens, rules \in RuleLists :
            /\ AtNodePop
            /\ SetRoleInfo(iden, rules, task.args[1])

SpecRace == Init /\ [][NextRace]_vars

\* C33: when setUserInfo or setRoleInfo on gate g has returned while
\* delAuthGate(g) was suspended at a store operation, and delAuthGate(g) then
\* returns, no user and no role holds an overlay for g, so that no decision
\* allowed(perm, default, gate=g) reads rules of the deleted gate.
RaceLeavesNoOverlay ==
    [][(/\ task.op = "delAuthGate" /\ task'.op = "idle"
        /\ ret.op \in {"setUserInfo", "setRoleInfo"}
        /\ ret.exc = "ok"
        /\ ret.args[4] = task.args[1]) =>
            /\ \A u \in DOMAIN usersbyiden' : task.args[1] \notin usersbyiden'[u].authgates
            /\ \A r \in DOMAIN rolesbyiden' : task.args[1] \notin rolesbyiden'[r].authgates
      ]_vars

====
